---- MODULE Spec2Model ----
\* The mal interpreter of tbcardoso/malrs: value model (types.rs), environment
\* (env.rs), builtin library (core.rs) and the step4 evaluator with its
\* read-eval-print loop (bin/step4_if_fn_do.rs).
EXTENDS Integers, Sequences, FiniteSets, TLC

\* ------------------------------------------------------------------ bounds
\* Number of input lines the line editor delivers before end-of-input.
MaxLines == 3
\* Number of environments that may be alive in the store.
MaxEnvs == 6
\* Depth of nested eval calls the host stack allows.
MaxDepth == 12
\* Number of environments of the Env unit harness.
MaxTestEnvs == 2
\* Number of atoms that may be alive in the store.
MaxAtoms == 2
\* Number of arguments of a hash-map call of the builtin harness.
MaxArgs == 4

\* pc        position of main ("start", "loop", "done", "aborted"), "env_test",
\*           or the position of the builtin harness
\* envs      the live environments, by handle; 1 is the root
\* evalEnvs  the environments as they were when the last eval returned
\* line      the last line read
\* result    what rep returned for it
\* tr        the eval calls made for it, in call order
\* nlines    lines read so far
\* EVAL_FUNC the evaluator slot of core.rs
\* op        the last Env operation of the unit harness
\* atoms     the contents of the live atoms, by handle
\* evalAtoms the atoms as they were when the last eval returned
\* hashOrd   the order in which the hash maps of the last line iterate
\* printed   what main printed on standard output for the last line
\* history   how many times main has saved the history of the line editor
\* step3Envs    the live environments of step3 run on the same lines
\* step3Result  what rep of step3 returned for the last line
VARIABLES pc, envs, evalEnvs, line, result, tr, nlines, EVAL_FUNC, op,
          atoms, evalAtoms, hashOrd, printed, history, step3Envs, step3Result

vars == <<pc, envs, evalEnvs, line, result, tr, nlines, EVAL_FUNC, op,
          atoms, evalAtoms, hashOrd, printed, history, step3Envs, step3Result>>

\* ------------------------------------------------------------ value model
\* MalValue: a tagged value.  t is the MalValueType variant, n a number (or
\* the handle of a captured Env or of an atom cell), s a name or string, xs
\* the elements, m the entries of a Map by canonical key.
EmptyMap == [k \in {} |-> 0]

V(t, n, s, xs) == [t |-> t, n |-> n, s |-> s, xs |-> xs, m |-> EmptyMap]

Nil == V("Nil", 0, "", <<>>)
True == V("True", 0, "", <<>>)
False == V("False", 0, "", <<>>)
Number(n) == V("Number", n, "", <<>>)
Symbol(s) == V("Symbol", 0, s, <<>>)
Str(s) == V("Str", 0, s, <<>>)
Keyword(s) == V("Keyword", 0, s, <<>>)
List(xs) == V("List", 0, "", xs)
Vector(xs) == V("Vector", 0, "", xs)

\* MalValue::new_atom: the handle of the RefCell; the contents are in the
\* store.
Atom(handle) == V("Atom", handle, "", <<>>)

\* MalValueType::Map: m maps the canonical key of MalMapKey, <<"s", text>>
\* for a Str key and <<"k", text>> for a Keyword key, to the value.
Map(m) == [t |-> "Map", n |-> 0, s |-> "", xs |-> <<>>, m |-> m]

\* MalMapKey.mal_value: the typed key of a canonical key.
MapKeyValue(key) == IF key[1] = "s" THEN Str(key[2]) ELSE Keyword(key[2])

\* MalValue::new_rust_func: the function (named by its ns entry) and a handle
\* to the environment it was created with.
new_rust_func(func, env) == V("RustFunc", env, func, <<>>)

\* MalValue::new_mal_func: body, parameter names and the captured environment.
new_mal_func(body, parameters, outer_env) ==
    V("MalFunc", outer_env, "", <<List(parameters), body>>)

MalFuncBody(f) == f.xs[2]
MalFuncParameters(f) == f.xs[1].xs
MalFuncOuterEnv(f) == f.n

\* MalResult: Ok(value) or Err(MalError).  A panic unwinds like an error that
\* nothing handles and ends the process.
Ok(v) == [ok |-> TRUE, val |-> v, err |-> "", msg |-> ""]
Err(kind, msg, payload) == [ok |-> FALSE, val |-> payload, err |-> kind, msg |-> msg]
Panic(msg) == Err("panic", msg, Nil)
IsPanic(r) == ~r.ok /\ r.err = "panic"

\* ------------------------------------------------------------ environment
EmptyData == [k \in {} |-> Nil]

\* Env::new
EnvNew == [data |-> EmptyData, outer |-> 0]

\* Env::set
EnvSetBroken(es, e, symbol_key, val) ==
    [es EXCEPT ![e].data = [k \in {symbol_key} |-> val]]

EnvSet(es, e, symbol_key, val) ==
    [es EXCEPT ![e].data =
        [k \in (DOMAIN @) \cup {symbol_key} |-> IF k = symbol_key THEN val ELSE @[k]]]

\* Env::get
EnvGet(es, e, symbol_key) ==
    IF symbol_key \in DOMAIN es[e].data
    THEN Ok(es[e].data[symbol_key])
    ELSE Err("UndefinedSymbol", symbol_key, Nil)

\* Env::with_outer_env: a new empty environment chained to outer.  The new
\* handle is the last index of the returned store.
EnvWithOuterEnv(es, outer) == Append(es, [data |-> EmptyData, outer |-> outer])

RECURSIVE BindAll(_, _, _, _)
BindAll(es, e, binds, exprs) ==
    IF binds = <<>> THEN es
    ELSE BindAll(EnvSet(es, e, Head(binds).s, Head(exprs)), e, Tail(binds), Tail(exprs))

\* Env::with_binds: a new environment chained to outer with binds[i] bound to
\* exprs[i]; an error when the counts differ.
EnvWithBinds(es, outer, binds, exprs) ==
    IF Len(binds) # Len(exprs)
    THEN [r |-> Err("Evaluation", "arity", Nil), es |-> es]
    ELSE [r |-> Ok(Nil),
          es |-> BindAll(EnvWithOuterEnv(es, outer), Len(es) + 1, binds, exprs)]

\* The environment handles a value holds.
RECURSIVE ValEnvs(_)
ValEnvs(v) ==
    (IF v.t \in {"RustFunc", "MalFunc"} THEN {v.n} ELSE {})
        \cup UNION {ValEnvs(v.xs[i]) : i \in 1..Len(v.xs)}
        \cup UNION {ValEnvs(v.m[k]) : k \in DOMAIN v.m}

\* The atom handles a value holds.
RECURSIVE ValAtoms(_)
ValAtoms(v) ==
    (IF v.t = "Atom" THEN {v.n} ELSE {})
        \cup UNION {ValAtoms(v.xs[i]) : i \in 1..Len(v.xs)}
        \cup UNION {ValAtoms(v.m[k]) : k \in DOMAIN v.m}

\* The environment handles environment e holds: its outer and those of the
\* values bound in it.
EnvRefs(es, e) ==
    (IF es[e].outer # 0 THEN {es[e].outer} ELSE {})
        \cup UNION {ValEnvs(es[e].data[k]) : k \in DOMAIN es[e].data}

\* The values held by the environments and atoms of R.
HeldValues(es, as, R) ==
    UNION {{es[e].data[k] : k \in DOMAIN es[e].data} : e \in R.e}
        \cup {as[a] : a \in R.a}

\* The environments (e) and atoms (a) held, directly or not, from those of R.
RECURSIVE Reach(_, _, _)
Reach(es, as, R) ==
    LET held == HeldValues(es, as, R)
        T == [e |-> R.e \cup ({es[e].outer : e \in R.e} \ {0})
                        \cup UNION {ValEnvs(v) : v \in held},
              a |-> R.a \cup UNION {ValAtoms(v) : v \in held}] IN
    IF T = R THEN R ELSE Reach(es, as, T)

\* Shared ownership: an environment lives as long as something holds it.  The
\* environments created after the last one still held from the root are
\* dropped.
DropDead(es, as) ==
    LET live == Reach(es, as, [e |-> {1}, a |-> {}]).e IN
    SubSeq(es, 1, CHOOSE m \in live : \A e \in live : e <= m)

\* The same for atoms.
DropDeadAtoms(es, as) ==
    LET live == Reach(es, as, [e |-> {1}, a |-> {}]).a \cup {0} IN
    SubSeq(as, 1, CHOOSE m \in live : \A a \in live : a <= m)

\* ---------------------------------------------------------------- builtins
\* The evaluation store threaded through eval: the environments, the atoms,
\* the iteration order of hash maps and the trace of eval calls (ast and
\* environment handle of every call, in call order).
Heap(es, as, ord, t) == [envs |-> es, atoms |-> as, ord |-> ord, tr |-> t]

\* A store without atoms.
Store(es, t) == Heap(es, <<>>, <<>>, t)
Out(r, st) == [r |-> r, st |-> st]

\* core::arg_count_eq
arg_count_eq(args, expected) ==
    IF Len(args) # expected THEN Err("RustFunction", "arg_count_eq", Nil) ELSE Ok(Nil)

\* core::arg_count_gte
arg_count_gte(args, min_args) ==
    IF Len(args) < min_args THEN Err("RustFunction", "arg_count_gte", Nil) ELSE Ok(Nil)

\* The f64 result of op on a and b.  Numbers are modelled by integers: a
\* quotient that is no whole number, or whose divisor is 0 (an infinity or
\* NaN in f64), and every result computed from one, is kept as the term of
\* its operation.
Abs(n) == IF n < 0 THEN -n ELSE n
IsWhole(v) == v.s = ""
Arithmetic(func, a, b) ==
    IF ~IsWhole(a) \/ ~IsWhole(b) THEN V("Number", 0, func, <<a, b>>)
    ELSE CASE func = "+" -> Number(a.n + b.n)
           [] func = "-" -> Number(a.n - b.n)
           [] func = "*" -> Number(a.n * b.n)
           [] func = "/" ->
                IF b.n # 0 /\ \E q \in -Abs(a.n)..Abs(a.n) : q * b.n = a.n
                THEN Number(CHOOSE q \in -Abs(a.n)..Abs(a.n) : q * b.n = a.n)
                ELSE V("Number", 0, func, <<a, b>>)

\* core::eval_arithmetic_operation with get_number_arg on both operands
eval_arithmetic_operation(args, func) ==
    IF ~arg_count_eq(args, 2).ok THEN arg_count_eq(args, 2)
    ELSE IF args[1].t # "Number" THEN Err("RustFunction", "Argument must be a number", Nil)
    ELSE IF args[2].t # "Number" THEN Err("RustFunction", "Argument must be a number", Nil)
    ELSE Ok(Arithmetic(func, args[1], args[2]))

\* core::throw
throw(args) ==
    IF ~arg_count_gte(args, 1).ok THEN arg_count_gte(args, 1)
    ELSE Err("Exception", "", args[1])

\* PartialEq of MalValueType.  Env does not implement PartialEq in env.rs; two
\* functions are compared by the handle of their environment.
RECURSIVE eq(_, _)
RECURSIVE eqOneWay(_, _)
eqOneWay(self, other) ==
    CASE self.t \in {"Nil", "True", "False"} /\ other.t = self.t -> TRUE
      [] self.t = "Number" /\ other.t = "Number" -> self.n = other.n
      [] self.t \in {"Symbol", "Str", "Keyword"} /\ other.t = self.t -> self.s = other.s
      [] self.t \in {"List", "Vector"} /\ other.t \in {"List", "Vector"}
                                       /\ (self.t = other.t \/ self.t = "List") ->
           /\ Len(self.xs) <= Len(other.xs)
           /\ \A i \in 1..Len(self.xs) : eqOneWay(self.xs[i], other.xs[i])
      [] self.t = "Map" /\ other.t = "Map" ->
           /\ Cardinality(DOMAIN self.m) = Cardinality(DOMAIN other.m)
           /\ \A k \in DOMAIN self.m :
                 k \in DOMAIN other.m /\ eqOneWay(self.m[k], other.m[k])
      [] self.t = "RustFunc" /\ other.t = "RustFunc" -> self.s = other.s /\ self.n = other.n
      [] self.t = "MalFunc" /\ other.t = "MalFunc" ->
           /\ eqOneWay(self.xs[2], other.xs[2])
           /\ self.xs[1] = other.xs[1]
           /\ self.n = other.n
      [] OTHER -> FALSE

eq(self, other) ==
    CASE self.t \in {"Nil", "True", "False"} /\ other.t = self.t -> TRUE
      [] self.t = "Number" /\ other.t = "Number" -> self.n = other.n
      [] self.t \in {"Symbol", "Str", "Keyword"} /\ other.t = self.t -> self.s = other.s
      [] self.t \in {"List", "Vector"} /\ other.t \in {"List", "Vector"} ->
           /\ Len(self.xs) = Len(other.xs)
           /\ \A i \in 1..Len(self.xs) : eq(self.xs[i], other.xs[i])
      [] self.t = "Map" /\ other.t = "Map" ->
           /\ Cardinality(DOMAIN self.m) = Cardinality(DOMAIN other.m)
           /\ \A k \in DOMAIN self.m :
                 k \in DOMAIN other.m /\ eq(self.m[k], other.m[k])
      [] self.t = "RustFunc" /\ other.t = "RustFunc" -> self.s = other.s /\ self.n = other.n
      [] self.t = "MalFunc" /\ other.t = "MalFunc" ->
           /\ eq(self.xs[2], other.xs[2])
           /\ self.xs[1] = other.xs[1]
           /\ self.n = other.n
      [] OTHER -> FALSE

\* MalValue::new_boolean
new_boolean(b) == IF b THEN True ELSE False

\* core::equals
equalsSameCell(args) ==
    IF ~arg_count_eq(args, 2).ok THEN arg_count_eq(args, 2)
    ELSE Ok(new_boolean(args[1] = args[2] \/ eq(args[1], args[2])))

equals(args) ==
    IF ~arg_count_eq(args, 2).ok THEN arg_count_eq(args, 2)
    ELSE Ok(new_boolean(eq(args[1], args[2])))

\* The canonical key of MalMap::from_arguments: format!("s{}", val) for a
\* Str, format!("k{}", val) for a Keyword.
MalMapKeyNoPrefix(v) == <<"s", v.s>>

MalMapKey(v) == <<IF v.t = "Str" THEN "s" ELSE "k", v.s>>

\* HashMap::insert
MapInsert(map, key, val) ==
    [k \in (DOMAIN map) \cup {key} |-> IF k = key THEN val ELSE map[k]]

\* The loop of MalMap::from_arguments from index i on.
RECURSIVE InsertArguments(_, _, _)
InsertArguments(map, arguments, i) ==
    IF i > Len(arguments) THEN Ok(Map(map))
    ELSE IF arguments[i].t \notin {"Str", "Keyword"}
    THEN Err("Parser", "hash map keys must be strings or keywords", Nil)
    ELSE InsertArguments(MapInsert(map, MalMapKey(arguments[i]), arguments[i + 1]),
                         arguments, i + 2)

\* MalMap::from_arguments
from_arguments(arguments) ==
    IF Len(arguments) % 2 # 0
    THEN Err("Parser", "hash map must have an even number of arguments", Nil)
    ELSE InsertArguments(EmptyMap, arguments, 1)

\* core::hash_map
hash_map(args) == from_arguments(args)

\* MalMap::assoc: a copy of the map with the key/value pairs added, under the
\* rules of from_arguments.
MalMap_assoc(mal_map, arguments) ==
    IF Len(arguments) % 2 # 0
    THEN Err("Parser", "hash map must have an even number of arguments", Nil)
    ELSE InsertArguments(mal_map.m, arguments, 1)

\* MalMap::dissoc: a copy of the map without the keys.
MalMap_dissoc(mal_map, keys) ==
    IF \E i \in 1..Len(keys) : keys[i].t \notin {"Str", "Keyword"}
    THEN Err("Parser", "hash map keys must be strings or keywords", Nil)
    ELSE Ok(Map([k \in (DOMAIN mal_map.m) \ {MalMapKey(keys[i]) : i \in 1..Len(keys)}
                    |-> mal_map.m[k]]))

\* MalMap::get: the value of the key, nil when the map has no such key.
MalMap_get(mal_map, key) ==
    IF key.t \in {"Str", "Keyword"} /\ MalMapKey(key) \in DOMAIN mal_map.m
    THEN mal_map.m[MalMapKey(key)]
    ELSE Nil

\* core::assoc
assoc(args) ==
    IF ~arg_count_gte(args, 1).ok THEN arg_count_gte(args, 1)
    ELSE IF args[1].t = "Map" THEN MalMap_assoc(args[1], Tail(args))
    ELSE Err("RustFunction", "First argument must be a hash map.", Nil)

\* core::dissoc
dissocFirstOnly(args) ==
    IF ~arg_count_gte(args, 1).ok THEN arg_count_gte(args, 1)
    ELSE IF args[1].t = "Map" THEN Ok(args[1])
    ELSE Err("RustFunction", "First argument must be a hash map.", Nil)

dissoc(args) ==
    IF ~arg_count_gte(args, 1).ok THEN arg_count_gte(args, 1)
    ELSE IF args[1].t = "Map" THEN MalMap_dissoc(args[1], Tail(args))
    ELSE Err("RustFunction", "First argument must be a hash map.", Nil)

\* core::get
get(args) ==
    IF ~arg_count_eq(args, 2).ok THEN arg_count_eq(args, 2)
    ELSE CASE args[1].t = "Map" -> Ok(MalMap_get(args[1], args[2]))
           [] args[1].t = "Nil" -> Ok(Nil)
           [] OTHER -> Err("RustFunction", "First argument must be a hash map.", Nil)

\* core::atom: a new cell holding the argument.
atom(args, st) ==
    IF ~arg_count_eq(args, 1).ok THEN Out(arg_count_eq(args, 1), st)
    ELSE Out(Ok(Atom(Len(st.atoms) + 1)), [st EXCEPT !.atoms = Append(@, args[1])])

\* core::deref_atom
deref_atom(args, st) ==
    IF ~arg_count_eq(args, 1).ok THEN Out(arg_count_eq(args, 1), st)
    ELSE IF args[1].t = "Atom" THEN Out(Ok(st.atoms[args[1].n]), st)
    ELSE Out(Err("RustFunction", "Invalid argument. Expected atom.", Nil), st)

\* core::reset_atom
reset_atom(args, st) ==
    IF ~arg_count_eq(args, 2).ok THEN Out(arg_count_eq(args, 2), st)
    ELSE IF args[1].t = "Atom"
    THEN Out(Ok(args[2]), [st EXCEPT !.atoms[args[1].n] = args[2]])
    ELSE Out(Err("RustFunction", "Invalid argument. Expected atom.", Nil), st)

\* The names core::ns binds in the root environment (the entries the programs
\* of the corpora use).
CoreNames == {"+", "-", "*", "/", "list", "throw", "apply", "map", "eval", "=", "atom",
              "deref", "reset!", "swap!", "hash-map", "assoc", "dissoc", "get"}

\* core::ns
ns(env) == [name \in CoreNames |-> new_rust_func(name, env)]

\* --------------------------------------------------------------- evaluator
RECURSIVE Eval(_, _, _, _)
RECURSIVE eval_ast_seq(_, _, _, _)
RECURSIVE eval_ast_seqRightToLeft(_, _, _, _)
RECURSIVE LetBindings(_, _, _, _, _)
RECURSIVE DoArgs(_, _, _, _, _)
RECURSIVE DoArgsKeepGoing(_, _, _, _, _)
RECURSIVE CallRust(_, _, _, _, _)
RECURSIVE eval_map_entries(_, _, _, _, _)
RECURSIVE MapElems(_, _, _, _, _)
RECURSIVE core_eval(_, _, _, _)
RECURSIVE core_apply(_, _, _, _)
RECURSIVE apply(_, _, _)
RECURSIVE map(_, _, _)
RECURSIVE mal_eval(_, _, _, _)
RECURSIVE swap_atom(_, _, _)

\* core::core_eval: calls through the EVAL_FUNC slot; dummy_eval panics.
core_eval(ast, e, st, fuel) ==
    IF EVAL_FUNC = "dummy_eval"
    THEN Out(Panic("core EVAL_FUNC was not set"), st)
    ELSE Eval(ast, e, st, fuel)

\* core::core_apply
core_apply(function, args, st, fuel) ==
    CASE function.t = "RustFunc" ->
           CallRust(function.s, args, function.n, st, fuel)
      [] function.t = "MalFunc" ->
           LET b == EnvWithBinds(st.envs, MalFuncOuterEnv(function),
                                 MalFuncParameters(function), args) IN
           IF ~b.r.ok THEN Out(b.r, st)
           ELSE core_eval(MalFuncBody(function), Len(b.es),
                          [st EXCEPT !.envs = b.es], fuel)
      [] OTHER -> Out(Err("RustFunction", "Expected function.", Nil), st)

\* core::apply
apply(args, st, fuel) ==
    IF ~arg_count_gte(args, 2).ok THEN Out(arg_count_gte(args, 2), st)
    ELSE LET last_args_list == args[Len(args)] IN
         IF last_args_list.t \in {"List", "Vector"}
         THEN core_apply(args[1],
                         SubSeq(args, 2, Len(args) - 1) \o last_args_list.xs, st, fuel)
         ELSE Out(Err("RustFunction", "Invalid argument. Last argument of apply must be a list or vector.", Nil), st)

\* vec.iter().map(|elem| core_apply(function, slice::from_ref(elem), env))
\* .collect() of core::map: the elements from the i-th on, stopping at the
\* first failing application.  MapRest is the iteration after the i-th
\* application returned h.
MapRest(h, function, vec, i, fuel) ==
    IF ~h.r.ok THEN [r |-> h.r, vals |-> <<>>, st |-> h.st]
    ELSE LET t == MapElems(function, vec, i + 1, h.st, fuel) IN
         [r |-> t.r, vals |-> <<h.r.val>> \o t.vals, st |-> t.st]

MapElems(function, vec, i, st, fuel) ==
    IF i > Len(vec) THEN [r |-> Ok(Nil), vals |-> <<>>, st |-> st]
    ELSE MapRest(core_apply(function, <<vec[i]>>, st, fuel), function, vec, i, fuel)

\* The ? on the collected result and Ok(MalValue::new(List(result_vec))).
MapResult(result_vec) ==
    IF ~result_vec.r.ok THEN Out(result_vec.r, result_vec.st)
    ELSE Out(Ok(List(result_vec.vals)), result_vec.st)

\* core::map
map(args, st, fuel) ==
    IF ~arg_count_eq(args, 2).ok THEN Out(arg_count_eq(args, 2), st)
    ELSE IF args[2].t \in {"List", "Vector"}
    THEN MapResult(MapElems(args[1], args[2].xs, 1, st, fuel))
    ELSE Out(Err("RustFunction", "Invalid argument. Second argument of map must be a list or vector.", Nil), st)

\* core::mal_eval
mal_eval(args, e, st, fuel) ==
    IF ~arg_count_eq(args, 1).ok THEN Out(arg_count_eq(args, 1), st)
    ELSE core_eval(args[1], e, st, fuel)

\* core::swap_atom: the function is applied to the contents read before the
\* call; the cell is written after it returned.
swap_atom(args, st, fuel) ==
    IF ~arg_count_gte(args, 2).ok THEN Out(arg_count_gte(args, 2), st)
    ELSE IF args[1].t # "Atom"
    THEN Out(Err("RustFunction", "Invalid 1st argument. Expected atom.", Nil), st)
    ELSE IF args[2].t \notin {"RustFunc", "MalFunc"}
    THEN Out(Err("RustFunction", "Invalid 2nd argument. Expected function.", Nil), st)
    ELSE LET apply_args == <<st.atoms[args[1].n]>> \o SubSeq(args, 3, Len(args))
             r == core_apply(args[2], apply_args, st, fuel) IN
         IF ~r.r.ok THEN r
         ELSE Out(r.r, [r.st EXCEPT !.atoms[args[1].n] = r.r.val])

\* The call (rust_function.func)(args, env) of a native function.
CallRust(func, args, e, st, fuel) ==
    CASE func \in {"+", "-", "*", "/"} -> Out(eval_arithmetic_operation(args, func), st)
      [] func = "list" -> Out(Ok(List(args)), st)
      [] func = "throw" -> Out(throw(args), st)
      [] func = "apply" -> apply(args, st, fuel)
      [] func = "map" -> map(args, st, fuel)
      [] func = "eval" -> mal_eval(args, e, st, fuel)
      [] func = "=" -> Out(equals(args), st)
      [] func = "atom" -> atom(args, st)
      [] func = "deref" -> deref_atom(args, st)
      [] func = "reset!" -> reset_atom(args, st)
      [] func = "swap!" -> swap_atom(args, st, fuel)
      [] func = "hash-map" -> Out(hash_map(args), st)
      [] func = "assoc" -> Out(assoc(args), st)
      [] func = "dissoc" -> Out(dissoc(args), st)
      [] func = "get" -> Out(get(args), st)

\* eval_ast_seq: seq.iter().map(eval).collect() stops at the first error.
eval_ast_seqRightToLeft(seq, e, st, fuel) ==
    IF seq = <<>> THEN [r |-> Ok(Nil), vals |-> <<>>, st |-> st]
    ELSE LET t == eval_ast_seqRightToLeft(Tail(seq), e, st, fuel) IN
         IF ~t.r.ok THEN t
         ELSE LET h == Eval(Head(seq), e, t.st, fuel) IN
              IF ~h.r.ok THEN [r |-> h.r, vals |-> <<>>, st |-> h.st]
              ELSE [r |-> Ok(Nil), vals |-> <<h.r.val>> \o t.vals, st |-> h.st]

eval_ast_seq(seq, e, st, fuel) ==
    IF seq = <<>> THEN [r |-> Ok(Nil), vals |-> <<>>, st |-> st]
    ELSE LET h == Eval(Head(seq), e, st, fuel) IN
         IF ~h.r.ok THEN [r |-> h.r, vals |-> <<>>, st |-> h.st]
         ELSE LET t == eval_ast_seq(Tail(seq), e, h.st, fuel) IN
              [r |-> t.r, vals |-> <<h.r.val>> \o t.vals, st |-> t.st]

RECURSIVE SetToSeq(_)
SetToSeq(S) ==
    IF S = {} THEN <<>>
    ELSE LET x == CHOOSE y \in S : TRUE IN <<x>> \o SetToSeq(S \ {x})

\* MalMap::iter: the keys in the order the HashMap yields them.
MalMap_iter(mal_map, ord) ==
    LET known == {ord[i] : i \in 1..Len(ord)} IN
    SelectSeq(ord, LAMBDA k : k \in DOMAIN mal_map.m)
        \o SetToSeq((DOMAIN mal_map.m) \ known)

\* The flat_map of eval_map collected into a Result: key, evaluated value,
\* key, evaluated value, ... up to the first value whose evaluation fails.
eval_map_entries(keys, mal_map, e, st, fuel) ==
    IF keys = <<>> THEN [r |-> Ok(Nil), vals |-> <<>>, st |-> st]
    ELSE LET h == Eval(mal_map.m[Head(keys)], e, st, fuel) IN
         IF ~h.r.ok THEN [r |-> h.r, vals |-> <<>>, st |-> h.st]
         ELSE LET t == eval_map_entries(Tail(keys), mal_map, e, h.st, fuel) IN
              [r |-> t.r, vals |-> <<MapKeyValue(Head(keys)), h.r.val>> \o t.vals,
               st |-> t.st]

\* eval_map
eval_map(mal_map, e, st, fuel) ==
    LET map_args == eval_map_entries(MalMap_iter(mal_map, st.ord), mal_map, e, st, fuel) IN
    IF ~map_args.r.ok THEN Out(map_args.r, map_args.st)
    ELSE Out(from_arguments(map_args.vals), map_args.st)

\* eval_ast
eval_astAllElements(ast, e, st, fuel) ==
    CASE ast.t = "Symbol" -> Out(EnvGet(st.envs, e, ast.s), st)
      [] ast.t = "List" ->
           LET s == eval_ast_seq(ast.xs, e, st, fuel) IN
           IF s.r.ok THEN Out(Ok(List(s.vals)), s.st) ELSE Out(s.r, s.st)
      [] ast.t = "Vector" ->
           LET s == eval_ast_seq(ast.xs, e, st, fuel) IN
           Out(Ok(Vector(s.vals)), s.st)
      [] ast.t = "Map" ->
           LET s == eval_map_entries(MalMap_iter(ast, st.ord), ast, e, st, fuel) IN
           Out(from_arguments(s.vals), s.st)
      [] OTHER -> Out(Ok(ast), st)

eval_ast(ast, e, st, fuel) ==
    CASE ast.t = "Symbol" -> Out(EnvGet(st.envs, e, ast.s), st)
      [] ast.t = "List" ->
           LET s == eval_ast_seq(ast.xs, e, st, fuel) IN
           IF s.r.ok THEN Out(Ok(List(s.vals)), s.st) ELSE Out(s.r, s.st)
      [] ast.t = "Vector" ->
           LET s == eval_ast_seq(ast.xs, e, st, fuel) IN
           IF s.r.ok THEN Out(Ok(Vector(s.vals)), s.st) ELSE Out(s.r, s.st)
      [] ast.t = "Map" -> eval_map(ast, e, st, fuel)
      [] OTHER -> Out(Ok(ast), st)

\* apply_ast
apply_astUnwrap(ast, e, st, fuel) ==
    LET ev == eval_ast(ast, e, st, fuel) IN
    IF ~ev.r.ok THEN ev
    ELSE IF ev.r.val.t # "List"
    THEN Out(Panic("Evaluation of list resulted in non-list"), ev.st)
    ELSE IF ev.r.val.xs = <<>>
    THEN Out(Panic("Evaluation of non-empty list resulted in empty list."), ev.st)
    ELSE LET evaluated_list == ev.r.val.xs
             f == evaluated_list[1] IN
         CASE f.t = "RustFunc" -> CallRust(f.s, Tail(evaluated_list), f.n, ev.st, fuel)
           [] f.t = "MalFunc" ->
                LET b == EnvWithBinds(ev.st.envs, MalFuncOuterEnv(f),
                                      MalFuncParameters(f), Tail(evaluated_list)) IN
                IF ~b.r.ok THEN Out(Panic("unwrap on Err"), ev.st)
                ELSE Eval(MalFuncBody(f), Len(b.es), [ev.st EXCEPT !.envs = b.es], fuel)
           [] OTHER -> Out(Err("Evaluation",
                               "First element of a list must evaluate to a function.", Nil), ev.st)

apply_ast(ast, e, st, fuel) ==
    LET ev == eval_ast(ast, e, st, fuel) IN
    IF ~ev.r.ok THEN ev
    ELSE IF ev.r.val.t # "List"
    THEN Out(Panic("Evaluation of list resulted in non-list"), ev.st)
    ELSE IF ev.r.val.xs = <<>>
    THEN Out(Panic("Evaluation of non-empty list resulted in empty list."), ev.st)
    ELSE LET evaluated_list == ev.r.val.xs
             f == evaluated_list[1] IN
         CASE f.t = "RustFunc" -> CallRust(f.s, Tail(evaluated_list), f.n, ev.st, fuel)
           [] f.t = "MalFunc" ->
                LET b == EnvWithBinds(ev.st.envs, MalFuncOuterEnv(f),
                                      MalFuncParameters(f), Tail(evaluated_list)) IN
                IF ~b.r.ok THEN Out(b.r, ev.st)
                ELSE Eval(MalFuncBody(f), Len(b.es), [ev.st EXCEPT !.envs = b.es], fuel)
           [] OTHER -> Out(Err("Evaluation",
                               "First element of a list must evaluate to a function.", Nil), ev.st)

\* apply_special_form_def
apply_special_form_defNoSet(args, e, st, fuel) ==
    IF Len(args) # 2
    THEN Out(Err("SpecialForm", "def! expected 2 arguments", Nil), st)
    ELSE IF args[1].t # "Symbol"
    THEN Out(Err("SpecialForm", "def! first argument must be a valid symbol name", Nil), st)
    ELSE Eval(args[2], e, st, fuel)

apply_special_form_def(args, e, st, fuel) ==
    IF Len(args) # 2
    THEN Out(Err("SpecialForm", "def! expected 2 arguments", Nil), st)
    ELSE IF args[1].t # "Symbol"
    THEN Out(Err("SpecialForm", "def! first argument must be a valid symbol name", Nil), st)
    ELSE LET arg2 == Eval(args[2], e, st, fuel) IN
         IF ~arg2.r.ok THEN arg2
         ELSE Out(Ok(arg2.r.val),
                  [arg2.st EXCEPT !.envs = EnvSet(@, e, args[1].s, arg2.r.val)])

\* The binding loop of apply_special_form_let, from index i on.
LetBindings(bindings, i, inner_env, st, fuel) ==
    IF i > Len(bindings) THEN Out(Ok(Nil), st)
    ELSE IF bindings[i].t # "Symbol"
    THEN Out(Err("SpecialForm",
                 "let* odd numbered elements of binding list must be valid symbol names", Nil), st)
    ELSE LET binding_expr == Eval(bindings[i + 1], inner_env, st, fuel) IN
         IF ~binding_expr.r.ok THEN binding_expr
         ELSE LetBindings(bindings, i + 2, inner_env,
                  [binding_expr.st EXCEPT
                      !.envs = EnvSet(@, inner_env, bindings[i].s, binding_expr.r.val)],
                  fuel)

\* apply_special_form_let
apply_special_form_letOwnOuter(args, e, st, fuel) ==
    IF Len(args) # 2
    THEN Out(Err("SpecialForm", "let* expected 2 arguments", Nil), st)
    ELSE IF args[1].t \notin {"List", "Vector"}
    THEN Out(Err("SpecialForm", "let* first argument must be a list or a vector", Nil), st)
    ELSE IF Len(args[1].xs) % 2 # 0
    THEN Out(Err("SpecialForm", "let* bindings list must have an even number of elements", Nil), st)
    ELSE LET es1 == Append(st.envs, [data |-> EmptyData, outer |-> Len(st.envs) + 1])
             inner_env == Len(es1)
             b == LetBindings(args[1].xs, 1, inner_env, [st EXCEPT !.envs = es1], fuel) IN
         IF ~b.r.ok THEN b
         ELSE Eval(args[2], inner_env, b.st, fuel)

apply_special_form_letNoScope(args, e, st, fuel) ==
    IF Len(args) # 2
    THEN Out(Err("SpecialForm", "let* expected 2 arguments", Nil), st)
    ELSE IF args[1].t \notin {"List", "Vector"}
    THEN Out(Err("SpecialForm", "let* first argument must be a list or a vector", Nil), st)
    ELSE IF Len(args[1].xs) % 2 # 0
    THEN Out(Err("SpecialForm", "let* bindings list must have an even number of elements", Nil), st)
    ELSE LET b == LetBindings(args[1].xs, 1, e, st, fuel) IN
         IF ~b.r.ok THEN b
         ELSE Eval(args[2], e, b.st, fuel)

apply_special_form_let(args, e, st, fuel) ==
    IF Len(args) # 2
    THEN Out(Err("SpecialForm", "let* expected 2 arguments", Nil), st)
    ELSE IF args[1].t \notin {"List", "Vector"}
    THEN Out(Err("SpecialForm", "let* first argument must be a list or a vector", Nil), st)
    ELSE IF Len(args[1].xs) % 2 # 0
    THEN Out(Err("SpecialForm", "let* bindings list must have an even number of elements", Nil), st)
    ELSE LET es1 == EnvWithOuterEnv(st.envs, e)
             inner_env == Len(es1)
             b == LetBindings(args[1].xs, 1, inner_env, [st EXCEPT !.envs = es1], fuel) IN
         IF ~b.r.ok THEN b
         ELSE Eval(args[2], inner_env, b.st, fuel)

\* apply_special_form_fn
apply_special_form_fnAnyArgs(args, e, st) ==
    IF Len(args) < 2
    THEN Out(Err("SpecialForm", "fn* expected 2 arguments", Nil), st)
    ELSE IF args[1].t \notin {"List", "Vector"}
    THEN Out(Err("SpecialForm", "fn* first argument must be a list or a vector", Nil), st)
    ELSE IF \E i \in 1..Len(args[1].xs) : args[1].xs[i].t # "Symbol"
    THEN Out(Err("SpecialForm",
                 "fn*! first argument must be a sequence of valid symbol names", Nil), st)
    ELSE Out(Ok(new_mal_func(args[2], args[1].xs, e)), st)

apply_special_form_fn(args, e, st) ==
    IF Len(args) # 2
    THEN Out(Err("SpecialForm", "fn* expected 2 arguments", Nil), st)
    ELSE IF args[1].t \notin {"List", "Vector"}
    THEN Out(Err("SpecialForm", "fn* first argument must be a list or a vector", Nil), st)
    ELSE IF \E i \in 1..Len(args[1].xs) : args[1].xs[i].t # "Symbol"
    THEN Out(Err("SpecialForm",
                 "fn*! first argument must be a sequence of valid symbol names", Nil), st)
    ELSE Out(Ok(new_mal_func(args[2], args[1].xs, e)), st)

\* The loop of apply_special_form_do from index i on; last is the value of
\* the previous argument.
DoArgsKeepGoing(args, i, last, e, stf) ==
    IF i > Len(args) THEN Out(Ok(last), stf.st)
    ELSE LET r == Eval(args[i], e, stf.st, stf.fuel) IN
         DoArgsKeepGoing(args, i + 1, IF r.r.ok THEN r.r.val ELSE last, e,
                         [st |-> r.st, fuel |-> stf.fuel])

DoArgs(args, i, last, e, stf) ==
    IF i > Len(args) THEN Out(Ok(last), stf.st)
    ELSE LET r == Eval(args[i], e, stf.st, stf.fuel) IN
         IF ~r.r.ok THEN r
         ELSE DoArgs(args, i + 1, r.r.val, e, [st |-> r.st, fuel |-> stf.fuel])

\* apply_special_form_do
apply_special_form_do(args, e, st, fuel) ==
    DoArgs(args, 1, Nil, e, [st |-> st, fuel |-> fuel])

\* apply_special_form_if
apply_special_form_ifZeroFalsy(args, e, st, fuel) ==
    IF Len(args) < 2 \/ Len(args) > 3
    THEN Out(Err("SpecialForm", "if expected 2 or 3 arguments", Nil), st)
    ELSE LET test_result == Eval(args[1], e, st, fuel) IN
         IF ~test_result.r.ok THEN test_result
         ELSE IF test_result.r.val \in {False, Nil, Number(0), Str("")}
         THEN IF Len(args) = 3
              THEN Eval(args[3], e, test_result.st, fuel)
              ELSE Out(Ok(Nil), test_result.st)
         ELSE Eval(args[2], e, test_result.st, fuel)

apply_special_form_if(args, e, st, fuel) ==
    IF Len(args) < 2 \/ Len(args) > 3
    THEN Out(Err("SpecialForm", "if expected 2 or 3 arguments", Nil), st)
    ELSE LET test_result == Eval(args[1], e, st, fuel) IN
         IF ~test_result.r.ok THEN test_result
         ELSE IF test_result.r.val.t \in {"False", "Nil"}
         THEN IF Len(args) = 3
              THEN Eval(args[3], e, test_result.st, fuel)
              ELSE Out(Ok(Nil), test_result.st)
         ELSE Eval(args[2], e, test_result.st, fuel)

\* The symbols eval takes for special forms.
SpecialForms == {"def!", "let*", "fn*", "do", "if"}

\* eval.  Every call is recorded in the trace; a call that the host stack
\* has no room for aborts the process.
EvalUnlessBound(ast, e, st0, fuel0) ==
    IF fuel0 = 0 THEN Out(Panic("stack overflow"), st0)
    ELSE
    LET st == [st0 EXCEPT !.tr = Append(@, [ast |-> ast, env |-> e])]
        fuel == fuel0 - 1 IN
    IF ast.t = "List" /\ ast.xs = <<>> THEN Out(Ok(ast), st)
    ELSE IF ast.t = "List"
    THEN LET first_arg == ast.xs[1]
             rest == Tail(ast.xs)
             special == first_arg.t = "Symbol" /\ ~EnvGet(st.envs, e, first_arg.s).ok IN
         CASE special /\ first_arg.s = "def!" ->
                apply_special_form_def(rest, e, st, fuel)
           [] special /\ first_arg.s = "let*" ->
                apply_special_form_let(rest, e, st, fuel)
           [] special /\ first_arg.s = "fn*" ->
                apply_special_form_fn(rest, e, st)
           [] special /\ first_arg.s = "do" ->
                apply_special_form_do(rest, e, st, fuel)
           [] special /\ first_arg.s = "if" ->
                apply_special_form_if(rest, e, st, fuel)
           [] OTHER -> apply_ast(ast, e, st, fuel)
    ELSE eval_ast(ast, e, st, fuel)

Eval(ast, e, st0, fuel0) ==
    IF fuel0 = 0 THEN Out(Panic("stack overflow"), st0)
    ELSE
    LET st == [st0 EXCEPT !.tr = Append(@, [ast |-> ast, env |-> e])]
        fuel == fuel0 - 1 IN
    IF ast.t = "List" /\ ast.xs = <<>> THEN Out(Ok(ast), st)
    ELSE IF ast.t = "List"
    THEN LET first_arg == ast.xs[1]
             rest == Tail(ast.xs) IN
         CASE first_arg.t = "Symbol" /\ first_arg.s = "def!" ->
                apply_special_form_def(rest, e, st, fuel)
           [] first_arg.t = "Symbol" /\ first_arg.s = "let*" ->
                apply_special_form_let(rest, e, st, fuel)
           [] first_arg.t = "Symbol" /\ first_arg.s = "fn*" ->
                apply_special_form_fn(rest, e, st)
           [] first_arg.t = "Symbol" /\ first_arg.s = "do" ->
                apply_special_form_do(rest, e, st, fuel)
           [] first_arg.t = "Symbol" /\ first_arg.s = "if" ->
                apply_special_form_if(rest, e, st, fuel)
           [] OTHER -> apply_ast(ast, e, st, fuel)
    ELSE eval_ast(ast, e, st, fuel)

\* ------------------------------------------------------- step3 evaluator
\* bin/step3_env.rs.  Its definitions carry the prefix step3_ where step4 has
\* one of the same name.  The store of step3 also says which build runs:
\* with overflow checks ("debug") or without ("release").
Builds == {"debug", "release"}
Store3(es, build) == [envs |-> es, atoms |-> <<>>, ord |-> <<>>, tr |-> <<>>, build |-> build]

\* MalValue::new(RustFunc(RustFunction(|args| ...))): a native function that
\* carries no environment.
step3_RustFunc(func) == V("RustFunc", 0, func, <<>>)

\* create_root_env of step3
step3_create_root_env ==
    <<[data |-> [name \in {"+", "-", "*", "/"} |-> step3_RustFunc(name)], outer |-> 0]>>

\* eval_arithmetic_operation of step3
step3_eval_arithmetic_operation(args, op_) ==
    IF Len(args) # 2 THEN Err("RustFunction", "Expected 2 arguments", Nil)
    ELSE IF args[1].t # "Number"
    THEN Err("RustFunction", "First argument must be a number", Nil)
    ELSE IF args[2].t # "Number"
    THEN Err("RustFunction", "Second argument must be a number", Nil)
    ELSE Ok(Arithmetic(op_, args[1], args[2]))

RECURSIVE step3_eval(_, _, _, _)
RECURSIVE step3_eval_list(_, _, _, _, _)
RECURSIVE step3_LetBindings(_, _, _, _, _, _)

\* list.iter().map(|mal_val| eval(mal_val, env)).collect() of eval_ast, from
\* the i-th element on.
step3_eval_list(list, i, e, st, fuel) ==
    IF i > Len(list) THEN [r |-> Ok(Nil), vals |-> <<>>, st |-> st]
    ELSE LET h == step3_eval(list[i], e, st, fuel) IN
         IF ~h.r.ok THEN [r |-> h.r, vals |-> <<>>, st |-> h.st]
         ELSE LET t == step3_eval_list(list, i + 1, e, h.st, fuel) IN
              [r |-> t.r, vals |-> <<h.r.val>> \o t.vals, st |-> t.st]

\* eval_ast of step3
step3_eval_ast(ast, e, st, fuel) ==
    CASE ast.t = "Symbol" -> Out(EnvGet(st.envs, e, ast.s), st)
      [] ast.t = "List" ->
           LET evaluated_list == step3_eval_list(ast.xs, 1, e, st, fuel) IN
           IF ~evaluated_list.r.ok THEN Out(evaluated_list.r, evaluated_list.st)
           ELSE Out(Ok(List(evaluated_list.vals)), evaluated_list.st)
      [] OTHER -> Out(Ok(ast), st)

\* apply_ast of step3
step3_apply_ast(ast, e, st, fuel) ==
    LET ev == step3_eval_ast(ast, e, st, fuel) IN
    IF ~ev.r.ok THEN ev
    ELSE IF ev.r.val.t # "List"
    THEN Out(Panic("Evaluation of list resulted in non-list"), ev.st)
    ELSE IF ev.r.val.xs = <<>>
    THEN Out(Panic("Evaluation of non-empty list resulted in empty list."), ev.st)
    ELSE IF ev.r.val.xs[1].t = "RustFunc"
    THEN Out(step3_eval_arithmetic_operation(Tail(ev.r.val.xs), ev.r.val.xs[1].s), ev.st)
    ELSE Out(Err("Evaluation", "First element of a list must evaluate to a function.", Nil),
             ev.st)

\* apply_special_form_def of step3
step3_apply_special_form_def(args, e, st, fuel) ==
    IF Len(args) # 2
    THEN Out(Err("SpecialForm", "def! expected 2 arguments", Nil), st)
    ELSE IF args[1].t # "Symbol"
    THEN Out(Err("SpecialForm", "def! first argument must be a valid symbol name", Nil), st)
    ELSE LET arg2 == step3_eval(args[2], e, st, fuel) IN
         IF ~arg2.r.ok THEN arg2
         ELSE Out(Ok(arg2.r.val),
                  [arg2.st EXCEPT !.envs = EnvSet(@, e, args[1].s, arg2.r.val)])

\* The loop for i in (0..end).step_by(2) of apply_special_form_let of step3,
\* from index i (counted from 1) on.  Indexing bindings past its end panics.
step3_LetBindings(bindings, i, end, inner_env, st, fuel) ==
    IF i > end THEN Out(Ok(Nil), st)
    ELSE IF i > Len(bindings) THEN Out(Panic("index out of bounds"), st)
    ELSE IF bindings[i].t # "Symbol"
    THEN Out(Err("SpecialForm",
                 "let* odd numbered elements of binding list must be valid symbol names", Nil), st)
    ELSE LET binding_expr == step3_eval(bindings[i + 1], inner_env, st, fuel) IN
         IF ~binding_expr.r.ok THEN binding_expr
         ELSE step3_LetBindings(bindings, i + 2, end, inner_env,
                  [binding_expr.st EXCEPT
                      !.envs = EnvSet(@, inner_env, bindings[i].s, binding_expr.r.val)],
                  fuel)

\* The usize value of bindings.len() - 1 minus the length, when the
\* subtraction wraps: any bound past the end of bindings does for the loop.
WrappedEnd(len) == len + 1

\* apply_special_form_let of step3: the bindings must be a List, and the
\* range of the loop ends at bindings.len() - 1, a subtraction in usize that
\* panics on an empty list in a build with overflow checks and wraps to
\* usize::MAX in one without.
step3_apply_special_form_let(args, e, st, fuel) ==
    IF Len(args) # 2
    THEN Out(Err("SpecialForm", "let* expected 2 arguments", Nil), st)
    ELSE IF args[1].t # "List"
    THEN Out(Err("SpecialForm", "let* first argument must be a list", Nil), st)
    ELSE IF Len(args[1].xs) % 2 # 0
    THEN Out(Err("SpecialForm", "let* bindings list must have an even number of elements", Nil), st)
    ELSE LET bindings == args[1].xs
             es1 == EnvWithOuterEnv(st.envs, e)
             inner_env == Len(es1)
             st1 == [st EXCEPT !.envs = es1] IN
         IF Len(bindings) = 0 /\ st.build = "debug"
         THEN Out(Panic("attempt to subtract with overflow"), st1)
         ELSE LET end == IF Len(bindings) = 0 THEN WrappedEnd(Len(bindings))
                         ELSE Len(bindings) - 1
                  b == step3_LetBindings(bindings, 1, end, inner_env, st1, fuel) IN
              IF ~b.r.ok THEN b
              ELSE step3_eval(args[2], inner_env, b.st, fuel)

\* eval of step3
step3_eval(ast, e, st, fuel) ==
    IF fuel = 0 THEN Out(Panic("stack overflow"), st)
    ELSE IF ast.t = "List" /\ ast.xs = <<>> THEN Out(Ok(ast), st)
    ELSE IF ast.t = "List"
    THEN CASE ast.xs[1] = Symbol("def!") ->
                step3_apply_special_form_def(Tail(ast.xs), e, st, fuel - 1)
           [] ast.xs[1] = Symbol("let*") ->
                step3_apply_special_form_let(Tail(ast.xs), e, st, fuel - 1)
           [] OTHER -> step3_apply_ast(ast, e, st, fuel - 1)
    ELSE step3_eval_ast(ast, e, st, fuel - 1)

\* rep of step3
step3_rep(input, st) ==
    IF input.kind = "blank" THEN Out(Err("EmptyProgram", "", Nil), st)
    ELSE step3_eval(input.ast, 1, st, MaxDepth)

\* ------------------------------------------------------- programs (input)
\* Forms as the reader delivers them.
Call(xs) == List(xs)
Def(name, expr) == List(<<Symbol("def!"), Symbol(name), expr>>)
Let(bindings, body) == List(<<Symbol("let*"), List(bindings), body>>)
Fn(params, body) == List(<<Symbol("fn*"), List(params), body>>)
Do(exprs) == List(<<Symbol("do")>> \o exprs)
If2(c, a) == List(<<Symbol("if"), c, a>>)
If3(c, a, b) == List(<<Symbol("if"), c, a, b>>)

DefX1 == Def("x", Number(1))
DefX2 == Def("x", Number(2))
DefYX == Def("y", Symbol("x"))
DefF == Def("f", Fn(<<>>, Symbol("x")))
LetXF == Let(<<Symbol("x"), Number(2)>>, Call(<<Symbol("f")>>))
CallF == Call(<<Symbol("f")>>)
Let6 == Let(<<Symbol("a"), Number(2),
              Symbol("b"), Call(<<Symbol("+"), Symbol("a"), Symbol("a")>>)>>,
            Call(<<Symbol("+"), Symbol("a"), Symbol("b")>>))
LetSeq == Let(<<Symbol("a"), Number(2), Symbol("b"), Symbol("a")>>,
              Vector(<<Symbol("a"), Symbol("b")>>))
LetDef == Let(<<Symbol("y"), Number(1)>>, Def("z", Symbol("y")))
LetFail == Let(<<Symbol("x"), Number(3), Symbol("y"), Symbol("u")>>, Symbol("x"))
FnDef == Call(<<Fn(<<Symbol("a")>>, Def("x", Symbol("a"))), Number(5)>>)
FnArity1 == Call(<<Fn(<<Symbol("a"), Symbol("b")>>, Symbol("a")), Number(1)>>)
FnArity3 == Call(<<Fn(<<Symbol("a")>>, Symbol("a")), Number(1), Number(2)>>)
FnCall2 == Call(<<Fn(<<Symbol("a"), Symbol("b")>>, Vector(<<Symbol("b"), Symbol("a")>>)),
                 Number(1), Number(2)>>)
ApplyArity == Call(<<Symbol("apply"), Fn(<<Symbol("a"), Symbol("b")>>, Symbol("a")),
                    Call(<<Symbol("list"), Number(1)>>)>>)
ApplyFn == Call(<<Symbol("apply"), Fn(<<Symbol("a")>>, Symbol("a")),
                 Call(<<Symbol("list"), Number(1)>>)>>)
ApplyPlus == Call(<<Symbol("apply"), Symbol("+"), Number(1),
                   Call(<<Symbol("list"), Number(2)>>)>>)
IfZero == If3(Number(0), Keyword("a"), Keyword("b"))
IfStr == If3(Str(""), Keyword("a"), Keyword("b"))
IfEmpty == If3(List(<<>>), Keyword("a"), Keyword("b"))
IfNil == If3(Nil, Keyword("a"), Keyword("b"))
IfFalse2 == If2(False, Keyword("a"))
IfDefT == If3(Def("c", True), Def("t", Number(1)), Def("e", Number(2)))
IfDefN == If3(Def("c", Nil), Def("t", Number(1)), Def("e", Number(2)))
IfX == If3(Symbol("x"), Def("t", Number(1)), Def("e", Number(2)))
If1 == List(<<Symbol("if"), True>>)
DoEmpty == Do(<<>>)
DoDefs == Do(<<Def("p", Number(1)), Def("q", Symbol("p")), Keyword("s4")>>)
DoFail == Do(<<Def("p", Number(2)), Symbol("u"), Def("q", Number(2))>>)
DoThrow == Do(<<Call(<<Symbol("throw"), Keyword("e")>>), Def("q", Number(3))>>)
DefG == Def("g", Let(<<Symbol("k"), Number(1)>>, Fn(<<>>, Def("k", Number(2)))))
CallG == Call(<<Symbol("g")>>)
SymX == Symbol("x")
Plus12 == Call(<<Symbol("+"), Number(1), Number(2)>>)
NotDef == Def("not", Fn(<<Symbol("a")>>, If3(Symbol("a"), False, True)))

\* The forms the line editor may deliver.
Corpus == {DefX1, DefX2, DefYX, DefF, LetXF, CallF, Let6, LetSeq, LetDef, LetFail,
           FnDef, FnArity1, FnArity3, FnCall2, ApplyArity, ApplyFn, ApplyPlus,
           IfZero, IfStr, IfEmpty, IfNil, IfFalse2, IfDefT, IfDefN, IfX, If1,
           DoEmpty, DoDefs, DoFail, DoThrow, DefG, CallG, SymX, Plus12}

\* Programs with atoms, vectors, hash maps and rebound special-form names.
MapLit(k1, v1, k2, v2) == Map([k \in {k1, k2} |-> IF k = k1 THEN v1 ELSE v2])
KA == <<"k", "a">>
KB == <<"k", "b">>

AppNum == Call(<<Number(1), Def("p", Number(1))>>)
AppUndef == Call(<<Symbol("u"), Def("p", Number(2))>>)
AppArgs == Call(<<Symbol("+"), Def("p", Number(3)), Def("q", Symbol("p"))>>)
AppNumReset == Call(<<Number(1), Call(<<Symbol("reset!"), Symbol("a"), Number(7)>>)>>)
ShadowAll == Do(<<Def("if", Number(5)), Def("do", Number(5)), Def("def!", Number(5)),
                 Def("let*", Number(5)), Def("fn*", Number(5))>>)
SymIf == Symbol("if")
LetZ == Let(<<Symbol("z"), Number(1)>>, Symbol("z"))
FnId == Fn(<<Symbol("v")>>, Symbol("v"))
DefA == Def("a", Call(<<Symbol("atom"), Number(5)>>))
DefB == Def("b", Symbol("a"))
DefC == Def("c", Call(<<Symbol("atom"), Number(5)>>))
SwapA == Call(<<Symbol("swap!"), Symbol("a"), Symbol("+"), Number(3)>>)
SwapFail == Call(<<Symbol("swap!"), Symbol("a"), Symbol("+"), Keyword("k")>>)
SwapFn == Call(<<Symbol("swap!"), Symbol("a"), FnId>>)
ResetB == Call(<<Symbol("reset!"), Symbol("b"), Number(1)>>)
DerefA == Call(<<Symbol("deref"), Symbol("a")>>)
DerefB == Call(<<Symbol("deref"), Symbol("b")>>)
DerefC == Call(<<Symbol("deref"), Symbol("c")>>)
EqAA == Call(<<Symbol("="), Symbol("a"), Symbol("a")>>)
VecDefs == Vector(<<Def("p", Number(1)), Def("q", Symbol("p")), Plus12>>)
VecFail == Vector(<<Def("p", Number(2)), Symbol("u"), Def("q", Number(2))>>)
MapDefs == MapLit(KA, Def("p", Number(1)), KB, Def("p", Number(2)))
MapFail == MapLit(KA, Symbol("u"), KB, Def("q", Number(3)))
MapNested == Map([k \in {KA} |-> Map([j \in {KB} |-> Call(<<Symbol("*"), Number(3), Number(2)>>)])])
EvalNum == Call(<<Symbol("eval"), Number(1)>>)

\* The forms the line editor may deliver in the runs on data.
CorpusData == {AppNum, AppUndef, AppArgs, AppNumReset, ShadowAll, SymIf, LetZ, FnId, IfNil,
               DoDefs, FnCall2, DefX1, DefA, DefB, DefC, SwapA, SwapFail, SwapFn,
               ResetB, DerefA, DerefB, DerefC, EqAA, VecDefs, VecFail, MapDefs,
               MapFail, MapNested, EvalNum}

\* Special forms of the wrong shape, with sub-expressions that would define p
\* were they evaluated.
DefP == Def("p", Number(1))
DefNoValue == List(<<Symbol("def!"), Symbol("x")>>)
DefThree == List(<<Symbol("def!"), Symbol("x"), DefP, Number(2)>>)
DefNumber == List(<<Symbol("def!"), Number(1), DefP>>)
DefString == List(<<Symbol("def!"), Str("x"), DefP>>)
LetNoBody == List(<<Symbol("let*"), List(<<Symbol("x"), DefP>>)>>)
LetThree == List(<<Symbol("let*"), List(<<Symbol("x"), DefP>>), Symbol("x"), DefP>>)
LetNumber == List(<<Symbol("let*"), Number(5), DefP>>)
LetOdd == List(<<Symbol("let*"), List(<<Symbol("x")>>), DefP>>)
LetOddVector ==
    List(<<Symbol("let*"), Vector(<<Symbol("x"), DefP, Symbol("y")>>), DefP>>)
FnNoBody == List(<<Symbol("fn*"), List(<<Symbol("a")>>)>>)
FnThree == List(<<Symbol("fn*"), List(<<Symbol("a")>>), Symbol("a"), DefP>>)
FnNumber == List(<<Symbol("fn*"), Number(5), DefP>>)
IfNoArgs == List(<<Symbol("if")>>)
IfOne == List(<<Symbol("if"), DefP>>)
IfFour == List(<<Symbol("if"), DefP, Number(1), Number(2), DefP>>)
DoIfNoArgs == Do(<<Def("q", Number(2)), IfNoArgs, DefP>>)
PlusDefNumber == Call(<<Symbol("+"), Number(1), DefNumber>>)
\* Forms of the right shape next to them.
LetVector == List(<<Symbol("let*"), Vector(<<Symbol("x"), Number(1)>>), Symbol("x")>>)
LetBadName == Let(<<Number(1), Number(2)>>, Number(3))
SymP == Symbol("p")

\* Calls of throw, alone and inside each evaluation that may enclose one.
ThrowE == Call(<<Symbol("throw"), Keyword("e")>>)
ThrowEF == Call(<<Symbol("throw"), Keyword("e"), Keyword("f")>>)
ThrowNone == Call(<<Symbol("throw")>>)
FnThrow == Fn(<<Symbol("v")>>, Call(<<Symbol("throw"), Symbol("v")>>))
PlusThrow == Call(<<Symbol("+"), Number(1), ThrowE, DefP>>)
DoDefThrow == Do(<<Def("q", Number(2)), ThrowEF, DefP>>)
IfThrowTest == If3(ThrowE, DefP, DefP)
IfThrowBranch == If2(True, ThrowE)
DefThrow == Def("x", ThrowE)
DefDoThrow == Def("x", Do(<<Def("q", Number(2)), ThrowE>>))
VecThrow == Vector(<<Number(1), ThrowE, DefP>>)
MapThrow == Map([k \in {KA} |-> ThrowE])
LetThrow == Let(<<Symbol("z"), Number(1)>>, ThrowE)
LetBindThrow == Let(<<Symbol("z"), ThrowE>>, Symbol("z"))
CallFnThrow == Call(<<FnThrow, Keyword("e")>>)
ApplyThrow ==
    Call(<<Symbol("apply"), Symbol("throw"),
           Call(<<Symbol("list"), Keyword("e"), Keyword("f")>>)>>)
ApplyThrowMiddle ==
    Call(<<Symbol("apply"), Symbol("throw"), Keyword("g"),
           Call(<<Symbol("list"), Keyword("e")>>)>>)
MapFnThrow ==
    Call(<<Symbol("map"), Symbol("throw"), Call(<<Symbol("list"), Number(1), Number(2)>>)>>)
SwapThrow == Call(<<Symbol("swap!"), Symbol("a"), Symbol("throw")>>)
DefSwapThrow == Def("x", SwapThrow)
SwapFnThrow == Call(<<Symbol("swap!"), Symbol("a"), FnThrow>>)

CorpusThrow == {ThrowE, ThrowEF, ThrowNone, PlusThrow, DoThrow, DoDefThrow, IfThrowTest,
                IfThrowBranch, DefThrow, DefDoThrow, VecThrow, MapThrow, LetThrow,
                LetBindThrow, CallFnThrow, ApplyThrow, ApplyThrowMiddle, MapFnThrow,
                SwapThrow, DefSwapThrow, SwapFnThrow, DefA, DerefA}

CorpusShape == {DefNoValue, DefThree, DefNumber, DefString, LetNoBody, LetThree,
                LetNumber, LetOdd, LetOddVector, FnNoBody, FnThree, FnNumber,
                IfNoArgs, IfOne, IfFour, DoIfNoArgs, PlusDefNumber,
                LetVector, LetBadName, SymP, DefP, DefX1}

\* swap! whose function reaches the atom it is applied for: a closure that
\* resets it, and, once the atom holds itself, the natives reset! and swap!.
ResetAA == Do(<<Call(<<Symbol("reset!"), Symbol("a"), Symbol("a")>>), Number(1)>>)
SwapReset == Call(<<Symbol("swap!"), Symbol("a"), Symbol("reset!"), Number(7)>>)
SwapSwapList ==
    Do(<<Call(<<Symbol("swap!"), Symbol("a"), Symbol("swap!"), Symbol("list"), Number(1)>>),
         Number(1)>>)
SwapNested ==
    Call(<<Symbol("swap!"), Symbol("a"),
           Fn(<<Symbol("v")>>,
              Do(<<Call(<<Symbol("reset!"), Symbol("a"), Number(1)>>), Number(2)>>))>>)
SwapPlus == Call(<<Symbol("swap!"), Symbol("a"), Symbol("+"), Number(3)>>)

CorpusSwap == {DefA, ResetAA, SwapReset, SwapSwapList, SwapNested, SwapPlus, DerefA,
               ResetB, DefB}

\* Programs of step3: numbers, strings, symbols, def!, let* on a list of
\* bindings, and applications of + - * /.
Num1 == Number(1)
StrA == Str("a")
SymY == Symbol("y")
SymPlus == Symbol("+")
EmptyList == List(<<>>)
Minus12 == Call(<<Symbol("-"), Number(1), Number(2)>>)
Times23 == Call(<<Symbol("*"), Number(2), Number(3)>>)
Div42 == Call(<<Symbol("/"), Number(4), Number(2)>>)
Div10 == Call(<<Symbol("/"), Number(1), Number(0)>>)
Div12 == Call(<<Symbol("/"), Number(1), Number(2)>>)
PlusNested == Call(<<Symbol("+"), Number(2), Times23>>)
PlusStr == Call(<<Symbol("+"), Number(1), StrA>>)
PlusOne == Call(<<Symbol("+"), Number(1)>>)
PlusX == Call(<<Symbol("+"), Symbol("x"), Number(1)>>)
CallX == Call(<<Symbol("x"), Number(1)>>)
DefXPlus == Def("x", PlusX)
DefYDiv == Def("y", Div42)
DefXStr == Def("x", StrA)
LetC == Let(<<Symbol("c"), Number(2)>>, Symbol("c"))
LetCPlus == Let(<<Symbol("c"), Number(2)>>, Call(<<Symbol("+"), Number(3), Symbol("c")>>))
LetTwo == Let(<<Symbol("z"), Number(1), Symbol("w"), Symbol("z")>>, Symbol("w"))
LetOuterX == Let(<<Symbol("c"), Number(2)>>, Symbol("x"))
LetEmpty == Let(<<>>, Number(1))
LetDefEmpty == Def("y", LetEmpty)

CorpusSteps == {Num1, StrA, SymX, SymY, SymPlus, EmptyList, Plus12, Minus12, Times23, Div42,
                Div10, Div12, PlusNested, PlusStr, PlusOne, PlusX, CallX, DefX1, DefXPlus,
                DefYDiv, DefXStr, DefYX, DefNoValue, DefNumber, LetC, LetCPlus, LetTwo,
                LetOuterX, LetOdd, LetNoBody, LetBadName, LetEmpty, LetDefEmpty}

\* ------------------------------------------------------------ step4 main
NoOp == [name |-> "none", env |-> 0, key |-> "", val |-> Nil]
NoLine == [kind |-> "none", ast |-> Nil]

\* create_root_env
create_root_env == <<[data |-> ns(1), outer |-> 0]>>

\* rep: read, eval in the root environment, print.  The reader is given: it
\* returns EmptyProgram for a blank line and the form otherwise.
rep(input, st) ==
    IF input.kind = "blank" THEN Out(Err("EmptyProgram", "", Nil), st)
    ELSE Eval(input.ast, 1, st, MaxDepth)

\* What main prints for the outcome of rep: the result, nothing for
\* EmptyProgram, and the error after "Error! " otherwise.  A panic unwinds
\* main before it prints.
println(r) ==
    IF IsPanic(r) THEN <<>>
    ELSE IF r.ok THEN <<[prefix |-> "", r |-> r]>>
    ELSE IF r.err = "EmptyProgram" THEN <<>>
    ELSE <<[prefix |-> "Error! ", r |-> r]>>

Init ==
    /\ pc = "start"
    /\ envs = <<>>
    /\ evalEnvs = <<>>
    /\ line = NoLine
    /\ result = Ok(Nil)
    /\ tr = <<>>
    /\ nlines = 0
    /\ EVAL_FUNC = "dummy_eval"
    /\ op = NoOp
    /\ atoms = <<>>
    /\ evalAtoms = <<>>
    /\ hashOrd = <<>>
    /\ printed = <<>>
    /\ history = 0
    /\ step3Envs = <<>>
    /\ step3Result = Ok(Nil)

\* main, up to the loop: create_root_env and the definition of not, unwrapped.
\* (o is the outcome of the one call of rep.)
MainStart ==
    /\ pc = "start"
    /\ \E o \in {rep([kind |-> "form", ast |-> NotDef],
                    Heap(create_root_env, <<>>, <<>>, <<>>))} :
       /\ evalEnvs' = o.st.envs
       /\ envs' = DropDead(o.st.envs, o.st.atoms)
       /\ evalAtoms' = o.st.atoms
       /\ atoms' = DropDeadAtoms(o.st.envs, o.st.atoms)
       /\ tr' = o.st.tr
       /\ result' = o.r
       /\ pc' = IF o.r.ok THEN "loop" ELSE "aborted"
    /\ line' = [kind |-> "form", ast |-> NotDef]
    /\ UNCHANGED <<nlines, EVAL_FUNC, op, hashOrd, printed, history,
                   step3Envs, step3Result>>

\* One turn of the loop on a non-empty line; ord is the order in which the
\* hash maps iterate during it.
ReadLine(input, ord) ==
    /\ pc = "loop"
    /\ nlines < MaxLines
    /\ \E o \in {rep(input, Heap(envs, atoms, ord, <<>>))} :
       /\ Len(o.st.envs) <= MaxEnvs
       /\ Len(o.st.atoms) <= MaxAtoms
       /\ evalEnvs' = o.st.envs
       /\ envs' = DropDead(o.st.envs, o.st.atoms)
       /\ evalAtoms' = o.st.atoms
       /\ atoms' = DropDeadAtoms(o.st.envs, o.st.atoms)
       /\ tr' = o.st.tr
       /\ result' = o.r
       /\ printed' = println(o.r)
       /\ pc' = IF IsPanic(o.r) THEN "aborted" ELSE "loop"
    /\ line' = input
    /\ nlines' = nlines + 1
    /\ hashOrd' = ord
    /\ UNCHANGED <<EVAL_FUNC, op, history>>

ReadForm ==
    /\ \E ast \in Corpus : ReadLine([kind |-> "form", ast |-> ast], <<>>)
    /\ UNCHANGED <<step3Envs, step3Result>>

ReadBlank ==
    /\ ReadLine([kind |-> "blank", ast |-> Nil], <<>>)
    /\ UNCHANGED <<step3Envs, step3Result>>

\* One turn of the loop on the empty line: nothing is evaluated.
ReadEmpty ==
    /\ pc = "loop"
    /\ nlines < MaxLines
    /\ line' = [kind |-> "empty", ast |-> Nil]
    /\ nlines' = nlines + 1
    /\ printed' = <<>>
    /\ UNCHANGED <<pc, envs, evalEnvs, result, tr, EVAL_FUNC, op,
                   atoms, evalAtoms, hashOrd, history,
                   step3Envs, step3Result>>

\* End of input: the loop breaks and the history is saved.
EndOfInput ==
    /\ pc = "loop"
    /\ pc' = "done"
    /\ history' = history + 1
    /\ UNCHANGED <<envs, evalEnvs, line, result, tr, nlines, EVAL_FUNC, op,
                   atoms, evalAtoms, hashOrd, printed,
                   step3Envs, step3Result>>

Next == MainStart \/ ReadForm \/ ReadBlank \/ ReadEmpty \/ EndOfInput

Spec == Init /\ [][Next]_vars

\* The canonical keys of the hash maps of ast.
RECURSIVE MapKeysOf(_)
MapKeysOf(ast) ==
    (DOMAIN ast.m) \cup UNION {MapKeysOf(ast.xs[i]) : i \in 1..Len(ast.xs)}
                  \cup UNION {MapKeysOf(ast.m[k]) : k \in DOMAIN ast.m}

\* The orders in which the entries of a HashMap over keys S may be yielded.
Orders(S) ==
    {o \in [1..Cardinality(S) -> S] : \A i, j \in 1..Cardinality(S) : o[i] = o[j] => i = j}

\* The loop on programs with atoms, vectors and hash maps.
ReadFormData ==
    /\ \E ast \in CorpusData : \E ord \in Orders(MapKeysOf(ast)) :
          ReadLine([kind |-> "form", ast |-> ast], ord)
    /\ UNCHANGED <<step3Envs, step3Result>>

NextData == MainStart \/ ReadFormData \/ ReadBlank \/ ReadEmpty \/ EndOfInput

SpecData == Init /\ [][NextData]_vars

\* The loop on programs that fail: special forms of the wrong shape and
\* calls of throw.
ReadFormErrors ==
    /\ \E ast \in CorpusShape \cup CorpusThrow : \E ord \in Orders(MapKeysOf(ast)) :
          ReadLine([kind |-> "form", ast |-> ast], ord)
    /\ UNCHANGED <<step3Envs, step3Result>>

NextErrors == MainStart \/ ReadFormErrors \/ ReadBlank \/ ReadEmpty \/ EndOfInput

SpecErrors == Init /\ [][NextErrors]_vars

\* The loop on programs whose swap! reaches its own atom.
ReadFormSwap ==
    /\ \E ast \in CorpusSwap : ReadLine([kind |-> "form", ast |-> ast], <<>>)
    /\ UNCHANGED <<step3Envs, step3Result>>

NextSwap == MainStart \/ ReadFormSwap \/ ReadBlank \/ ReadEmpty \/ EndOfInput

SpecSwap == Init /\ [][NextSwap]_vars

\* step3 and step4 run side by side on the same lines, each from its fresh
\* root environment.  A process that panicked reads no further line.
InitSteps ==
    /\ pc = "start"
    /\ envs = <<>>
    /\ evalEnvs = <<>>
    /\ line = NoLine
    /\ result = Ok(Nil)
    /\ tr = <<>>
    /\ nlines = 0
    /\ EVAL_FUNC = "dummy_eval"
    /\ op = NoOp
    /\ atoms = <<>>
    /\ evalAtoms = <<>>
    /\ hashOrd = <<>>
    /\ printed = <<>>
    /\ history = 0
    /\ step3Envs = step3_create_root_env
    /\ step3Result = Ok(Nil)

ReadLineSteps(input) ==
    /\ ~IsPanic(step3Result)
    /\ ReadLine(input, <<>>)
    /\ \E build \in Builds :
          \E o \in {step3_rep(input, Store3(step3Envs, build))} :
          /\ step3Result' = o.r
          \* no value of step3 holds an environment: only the root outlives the line
          /\ step3Envs' = <<o.st.envs[1]>>

ReadFormSteps == \E ast \in CorpusSteps : ReadLineSteps([kind |-> "form", ast |-> ast])

ReadBlankSteps == ReadLineSteps([kind |-> "blank", ast |-> Nil])

NextSteps == MainStart \/ ReadFormSteps \/ ReadBlankSteps \/ ReadEmpty \/ EndOfInput

SpecSteps == InitSteps /\ [][NextSteps]_vars

\* ------------------------------------------------------- Env unit harness
\* The operations of Env called directly, as the unit tests of env.rs do.
TestKeys == {"a", "b"}
TestVals == {Number(1), Number(2)}

InitEnv ==
    /\ pc = "env_test"
    /\ envs = <<EnvNew>>
    /\ evalEnvs = <<>>
    /\ line = NoLine
    /\ result = Ok(Nil)
    /\ tr = <<>>
    /\ nlines = 0
    /\ EVAL_FUNC = "dummy_eval"
    /\ op = NoOp
    /\ atoms = <<>>
    /\ evalAtoms = <<>>
    /\ hashOrd = <<>>
    /\ printed = <<>>
    /\ history = 0
    /\ step3Envs = <<>>
    /\ step3Result = Ok(Nil)

TestWithOuterEnv ==
    /\ pc = "env_test"
    /\ Len(envs) < MaxTestEnvs
    /\ \E e \in 1..Len(envs) :
        /\ envs' = EnvWithOuterEnv(envs, e)
        /\ op' = [name |-> "with_outer_env", env |-> e, key |-> "", val |-> Nil]
    /\ UNCHANGED <<pc, evalEnvs, line, result, tr, nlines, EVAL_FUNC,
                   atoms, evalAtoms, hashOrd, printed, history,
                   step3Envs, step3Result>>

TestSet ==
    /\ pc = "env_test"
    /\ \E e \in 1..Len(envs), k \in TestKeys, v \in TestVals :
        /\ envs' = EnvSet(envs, e, k, v)
        /\ op' = [name |-> "set", env |-> e, key |-> k, val |-> v]
    /\ UNCHANGED <<pc, evalEnvs, line, result, tr, nlines, EVAL_FUNC,
                   atoms, evalAtoms, hashOrd, printed, history,
                   step3Envs, step3Result>>

TestGet ==
    /\ pc = "env_test"
    /\ \E e \in 1..Len(envs), k \in TestKeys :
        /\ result' = EnvGet(envs, e, k)
        /\ op' = [name |-> "get", env |-> e, key |-> k, val |-> Nil]
    /\ UNCHANGED <<pc, envs, evalEnvs, line, tr, nlines, EVAL_FUNC,
                   atoms, evalAtoms, hashOrd, printed, history,
                   step3Envs, step3Result>>

NextEnv == TestWithOuterEnv \/ TestSet \/ TestGet

SpecEnv == InitEnv /\ [][NextEnv]_vars

\* ---------------------------------------------------- builtin harness
\* The builtins of core.rs and eval called directly on values.  op.val holds
\* the arguments of the last call, line.ast those of the assoc call whose
\* result a dissoc call was given.
CoreEnvs ==
    <<[data |-> ns(1), outer |-> 0],
      [data |-> [k \in {"x"} |-> Number(1)], outer |-> 1]>>

\* Two atoms with the same contents.
CoreAtoms == <<Number(5), Number(5)>>

IdFn == new_mal_func(Symbol("a"), <<Symbol("a")>>, 1)

CoreScalars ==
    {Nil, True, False, Number(1), Number(2), Str("a"), Keyword("a"), Symbol("a"),
     Atom(1), Atom(2), new_rust_func("+", 1), new_rust_func("-", 1), IdFn}

CoreValues ==
    CoreScalars \cup
    {List(<<>>), Vector(<<>>), List(<<Number(1), Number(2)>>),
     Vector(<<Number(1), Number(2)>>), Vector(<<Number(1)>>),
     List(<<Number(1), Number(2), Number(1)>>), Vector(<<Number(2), Number(1)>>),
     List(<<Vector(<<Number(1)>>)>>), Vector(<<List(<<Number(1)>>)>>),
     List(<<Atom(1)>>), Vector(<<Atom(1)>>),
     Map(EmptyMap), Map([k \in {KA} |-> Number(1)]), Map([k \in {KA} |-> Number(2)]),
     Map([k \in {<<"s", "a">>} |-> Number(1)]),
     Map([k \in {KA, KB} |-> Number(1)]),
     Map([k \in {KA} |-> Vector(<<Number(1)>>)]), Map([k \in {KA} |-> List(<<Number(1)>>)])}

\* The arguments given to hash-map: keys of both kinds with the same text, a
\* value that is no key, and values.
MapArgValues == {Keyword("a"), Str("a"), Keyword("b"), Number(1), Number(2)}
MapArgSeqs == UNION {[1..n -> MapArgValues] : n \in 0..MaxArgs}

\* The values eval returns unchanged.
SelfEvaluating == (CoreScalars \ {Symbol("a")}) \cup {List(<<>>)}

CoreOp(name, args) == [name |-> name, env |-> 0, key |-> "", val |-> List(args)]

InitCore ==
    /\ pc = "core_test"
    /\ envs = CoreEnvs
    /\ evalEnvs = <<>>
    /\ line = NoLine
    /\ result = Ok(Nil)
    /\ tr = <<>>
    /\ nlines = 0
    /\ EVAL_FUNC = "dummy_eval"
    /\ op = NoOp
    /\ atoms = CoreAtoms
    /\ evalAtoms = <<>>
    /\ hashOrd = <<>>
    /\ printed = <<>>
    /\ history = 0
    /\ step3Envs = <<>>
    /\ step3Result = Ok(Nil)

CallEquals ==
    /\ pc = "core_test"
    /\ \E a, b \in CoreValues :
        /\ result' = equals(<<a, b>>)
        /\ op' = CoreOp("=", <<a, b>>)
    /\ pc' = "equals_done"
    /\ UNCHANGED <<envs, evalEnvs, line, tr, nlines, EVAL_FUNC, atoms, evalAtoms, hashOrd, printed, history,
                   step3Envs, step3Result>>

CallHashMap ==
    /\ pc = "core_test"
    /\ \E args \in MapArgSeqs :
        /\ result' = hash_map(args)
        /\ op' = CoreOp("hash-map", args)
    /\ pc' = "map_built"
    /\ UNCHANGED <<envs, evalEnvs, line, tr, nlines, EVAL_FUNC, atoms, evalAtoms, hashOrd, printed, history,
                   step3Envs, step3Result>>

CallAssoc ==
    /\ pc = "map_built"
    /\ result.ok
    /\ \E k \in MapArgValues, v \in {Number(1), Number(2)} :
        /\ result' = assoc(<<result.val, k, v>>)
        /\ op' = CoreOp("assoc", <<result.val, k, v>>)
        /\ line' = [kind |-> "assoc", ast |-> List(<<result.val, k, v>>)]
    /\ pc' = "assoc_done"
    /\ UNCHANGED <<envs, evalEnvs, tr, nlines, EVAL_FUNC, atoms, evalAtoms, hashOrd, printed, history,
                   step3Envs, step3Result>>

CallDissoc ==
    /\ pc = "assoc_done"
    /\ result.ok
    /\ \E k \in MapArgValues :
        /\ result' = dissoc(<<result.val, k>>)
        /\ op' = CoreOp("dissoc", <<result.val, k>>)
    /\ pc' = "dissoc_done"
    /\ UNCHANGED <<envs, evalEnvs, line, tr, nlines, EVAL_FUNC, atoms, evalAtoms, hashOrd, printed, history,
                   step3Envs, step3Result>>

CallGet ==
    /\ pc \in {"map_built", "assoc_done", "dissoc_done"}
    /\ \E target \in {result.val, Nil, Number(1)}, k \in MapArgValues :
        /\ result' = get(<<target, k>>)
        /\ op' = CoreOp("get", <<target, k>>)
    /\ pc' = "get_done"
    /\ UNCHANGED <<envs, evalEnvs, line, tr, nlines, EVAL_FUNC, atoms, evalAtoms, hashOrd, printed, history,
                   step3Envs, step3Result>>

CallEval ==
    /\ pc = "core_test"
    /\ \E v \in SelfEvaluating, e \in 1..Len(envs) :
        \E o \in {Eval(v, e, Heap(envs, atoms, <<>>, <<>>), MaxDepth)} :
        /\ result' = o.r
        /\ evalEnvs' = o.st.envs
        /\ evalAtoms' = o.st.atoms
        /\ tr' = o.st.tr
        /\ op' = [name |-> "eval", env |-> e, key |-> "", val |-> v]
    /\ pc' = "eval_done"
    /\ UNCHANGED <<envs, line, nlines, EVAL_FUNC, atoms, hashOrd, printed, history,
                   step3Envs, step3Result>>

\* The functions and sequences given to map and apply: natives of one
\* argument, a native of two, a closure and a value that is no function; lists
\* and vectors, of atoms too, and a value that is no sequence.
MapFns ==
    {new_rust_func("list", 1), new_rust_func("deref", 1), new_rust_func("atom", 1),
     new_rust_func("throw", 1), new_rust_func("+", 1), IdFn, Number(1)}
MapColls ==
    {List(<<>>), Vector(<<>>), List(<<Number(1), Number(2)>>),
     Vector(<<Number(1), Number(2)>>), List(<<Atom(1), Atom(2)>>),
     Vector(<<Atom(1), Number(1), Atom(2)>>), Number(1)}
ApplyMiddles == {<<>>, <<Number(1)>>, <<Number(1), Number(2)>>}

CallMap ==
    /\ pc = "core_test"
    /\ \E f \in MapFns, coll \in MapColls :
        \E o \in {map(<<f, coll>>, Heap(envs, atoms, <<>>, <<>>), MaxDepth)} :
        /\ result' = o.r
        /\ evalEnvs' = o.st.envs
        /\ evalAtoms' = o.st.atoms
        /\ tr' = o.st.tr
        /\ op' = CoreOp("map", <<f, coll>>)
    /\ pc' = "map_done"
    /\ UNCHANGED <<envs, line, nlines, EVAL_FUNC, atoms, hashOrd, printed, history,
                   step3Envs, step3Result>>

CallApply ==
    /\ pc = "core_test"
    /\ \E f \in MapFns, middle \in ApplyMiddles, last \in MapColls :
        \E o \in {apply(<<f>> \o middle \o <<last>>,
                       Heap(envs, atoms, <<>>, <<>>), MaxDepth)} :
        /\ result' = o.r
        /\ evalEnvs' = o.st.envs
        /\ evalAtoms' = o.st.atoms
        /\ tr' = o.st.tr
        /\ op' = CoreOp("apply", <<f>> \o middle \o <<last>>)
    /\ pc' = "apply_done"
    /\ UNCHANGED <<envs, line, nlines, EVAL_FUNC, atoms, hashOrd, printed, history,
                   step3Envs, step3Result>>

NextCore ==
    \/ CallEquals \/ CallHashMap \/ CallAssoc \/ CallDissoc \/ CallGet \/ CallEval
    \/ CallMap \/ CallApply

SpecCore == InitCore /\ [][NextCore]_vars

\* ----------------------------------------------------------------- claims
\* The environments of the chain of e, nearest first.
RECURSIVE Chain(_, _)
Chain(es, e) == IF e = 0 THEN <<>> ELSE <<e>> \o Chain(es, es[e].outer)

\* The value bound to key in the nearest environment of the chain of e that
\* binds it, UndefinedSymbol(key) when none does.
RECURSIVE ChainLookup(_, _, _)
ChainLookup(es, e, key) ==
    IF e = 0 THEN Err("UndefinedSymbol", key, Nil)
    ELSE IF key \in DOMAIN es[e].data THEN Ok(es[e].data[key])
    ELSE ChainLookup(es, es[e].outer, key)

\* C2: Env.get(name) returns the value bound to name in the nearest
\* environment of the chain (the receiver first, then each outer in turn) and
\* fails with UndefinedSymbol(name) exactly when no environment of the chain
\* binds name.
C2_GetWalksChain ==
    op.name = "get" => result = ChainLookup(envs, op.env, op.key)

\* C3: Env.set(name, value) inserts or overwrites the binding of name in the
\* receiving environment only: get(name) on it then returns value, every
\* other binding of it is unchanged, and no other environment changes.
C3_SetOnlyThisEnv ==
    [][op'.name = "set" =>
        /\ EnvGet(envs', op'.env, op'.key) = Ok(op'.val)
        /\ DOMAIN envs'[op'.env].data = (DOMAIN envs[op'.env].data) \cup {op'.key}
        /\ \A k \in (DOMAIN envs[op'.env].data) \ {op'.key} :
              envs'[op'.env].data[k] = envs[op'.env].data[k]
        /\ envs'[op'.env].outer = envs[op'.env].outer
        /\ Len(envs') = Len(envs)
        /\ \A o \in (1..Len(envs)) \ {op'.env} : envs'[o] = envs[o]]_vars

\* A set that overwrites a binding of an environment that has another binding
\* and an outer environment binding the same name to another value.
C3_Witness ==
    /\ op.name = "set"
    /\ envs[op.env].outer # 0
    /\ op.key \in DOMAIN envs[envs[op.env].outer].data
    /\ envs[envs[op.env].outer].data[op.key] # op.val
    /\ DOMAIN envs[op.env].data = TestKeys

\* A step of the loop that evaluates a form.
IsRep == pc = "loop" /\ nlines' = nlines + 1 /\ line'.kind = "form"

\* The trace entry of the top-level eval call of a line.
TopEntry(ast) == [ast |-> ast, env |-> 1]

\* The evaluation of a sub-form of the line in the root environment, in the
\* store es, continuing the trace t.
Sub(ast, es, t) == Eval(ast, 1, Store(es, t), MaxDepth - 1)

IsForm(ast, head) ==
    ast.t = "List" /\ ast.xs # <<>> /\ ast.xs[1] = Symbol(head)

\* ast contains, at any depth, a def! form.
RECURSIVE MentionsDef(_)
MentionsDef(ast) ==
    \/ IsForm(ast, "def!")
    \/ \E i \in 1..Len(ast.xs) : MentionsDef(ast.xs[i])

\* ast contains, at any depth, a def! form of name.
RECURSIVE MentionsDefOf(_, _)
MentionsDefOf(ast, name) ==
    \/ IsForm(ast, "def!") /\ Len(ast.xs) >= 2 /\ ast.xs[2] = Symbol(name)
    \/ \E i \in 1..Len(ast.xs) : MentionsDefOf(ast.xs[i], name)

\* C1: closures are lexically scoped: after (def! x 1) and
\* (def! f (fn* () x)), the form (let* (x 2) (f)) evaluates to 1.
C1_LexicalScope ==
    [][(/\ IsRep
        /\ line'.ast = LetXF
        /\ EnvGet(envs, 1, "x") = Ok(Number(1))
        /\ EnvGet(envs, 1, "f") = Ok(new_mal_func(Symbol("x"), <<>>, 1)))
       => result' = Ok(Number(1))]_vars

\* C4: def! with two arguments, the first a Symbol, evaluates the second in
\* the current environment, binds the symbol to the result there and returns
\* the result; the symbol then evaluates to that value in that environment,
\* on later lines too, until a def! of the symbol is evaluated again.
C4_DefBinds ==
    [][IsRep =>
        /\ (IsForm(line'.ast, "def!") /\ Len(line'.ast.xs) = 3
              /\ line'.ast.xs[2].t = "Symbol") =>
             LET name == line'.ast.xs[2].s
                 arg2 == Sub(line'.ast.xs[3], envs, <<TopEntry(line'.ast)>>) IN
             IF arg2.r.ok
             THEN /\ result' = arg2.r
                  /\ EnvGet(evalEnvs', 1, name) = result'
                  /\ Eval(Symbol(name), 1, Store(evalEnvs', <<>>), MaxDepth).r = result'
                  /\ \A k \in (DOMAIN arg2.st.envs[1].data) \ {name} :
                        EnvGet(evalEnvs', 1, k) = EnvGet(arg2.st.envs, 1, k)
             ELSE /\ result' = arg2.r
                  /\ evalEnvs' = arg2.st.envs
        /\ \A k \in DOMAIN envs[1].data :
             \/ MentionsDefOf(line'.ast, k)
             \/ Eval(Symbol(k), 1, Store(evalEnvs', <<>>), MaxDepth).r = Ok(envs[1].data[k])]_vars

\* A later line evaluates x after (def! x 2) replaced an earlier binding.
C4_Witness ==
    /\ pc = "loop"
    /\ nlines = 3
    /\ line.ast = SymX
    /\ result = Ok(Number(2))

\* C5: let* evaluates its pairs in order in the child environment, each
\* expression seeing the earlier bindings and, through the chain, the
\* invoking environment; (let* (a 2 b (+ a a)) (+ a b)) is 6.
C5_LetSequential ==
    [][(IsRep /\ line'.ast = Let6) => result' = Ok(Number(6))]_vars

\* The head of a call evaluates to a closure without any effect, and no
\* argument of the call contains a def!.
IsClosureCall(ast, es) ==
    /\ ast.t = "List" /\ ast.xs # <<>>
    /\ \/ IsForm(ast.xs[1], "fn*")
       \/ /\ ast.xs[1].t = "Symbol"
          /\ ast.xs[1].s \notin {"def!", "let*", "fn*", "do", "if"}
          /\ EnvGet(es, 1, ast.xs[1].s).ok
          /\ EnvGet(es, 1, ast.xs[1].s).val.t = "MalFunc"
    /\ \A i \in 2..Len(ast.xs) : ~MentionsDef(ast.xs[i])

\* C6: scopes do not leak: the names bound by a let* binding list, by closure
\* parameters, or by def! inside a let* body or a closure body are set in the
\* new child environment only; the invoking environment, the closure's
\* captured environment and every other existing environment have the same
\* bindings after the let* or the application (value or error) as before.
C6_ScopesDoNotLeak ==
    [][IsRep =>
        /\ \A e \in 2..Len(envs) : evalEnvs'[e] = envs[e]
        /\ (IsForm(line'.ast, "let*") \/ IsClosureCall(line'.ast, envs)) =>
             /\ evalEnvs'[1] = envs[1]
             /\ \A e \in (Len(envs) + 1)..Len(evalEnvs') : evalEnvs'[e].outer # 0]_vars

\* The closure g, created inside a let*, ran (def! k 2): k is 2 in the new
\* environment and still 1 in the captured one, and the root has no k.
C6_Witness ==
    /\ line.ast = CallG
    /\ result = Ok(Number(2))
    /\ "k" \notin DOMAIN envs[1].data
    /\ \E e \in 1..Len(evalEnvs) :
        /\ evalEnvs[e].outer > 1
        /\ "k" \in DOMAIN evalEnvs[e].data /\ evalEnvs[e].data["k"] = Number(2)
        /\ envs[evalEnvs[e].outer].data["k"] = Number(1)

\* C7: a closure captures its defining environment by reference: calling
\* f = (fn* () x) yields the binding x has in the defining environment at the
\* time of the call, also when x was bound or rebound after f was created.
C7_CaptureByReference ==
    [][(/\ IsRep
        /\ line'.ast = CallF
        /\ EnvGet(envs, 1, "f") = Ok(new_mal_func(Symbol("x"), <<>>, 1))
        /\ EnvGet(envs, 1, "x").ok)
       => result' = EnvGet(envs, 1, "x")]_vars

\* The parameters of a fn* form and the literal arguments it is applied to.
FnFormOk(f) ==
    /\ IsForm(f, "fn*") /\ Len(f.xs) = 3 /\ f.xs[2].t \in {"List", "Vector"}
    /\ \A i \in 1..Len(f.xs[2].xs) : f.xs[2].xs[i].t = "Symbol"
AllNumbers(xs) == \A i \in 1..Len(xs) : xs[i].t = "Number"

\* The application bound params to args in the environment created by it.
BoundIn(es, es2, params, args) ==
    /\ Len(es2) > Len(es)
    /\ es2[Len(es) + 1].outer = 1
    /\ \A i \in 1..Len(params) :
          /\ params[i].s \in DOMAIN es2[Len(es) + 1].data
          /\ es2[Len(es) + 1].data[params[i].s] = args[i]

\* C8: applying a closure to a number of arguments different from its number
\* of parameters returns an error value and never panics, in the evaluator's
\* application and in core_apply (reached through apply); with equal counts
\* parameter i is bound to argument i in the new environment.
C8_ArityMismatch ==
    [][IsRep =>
        /\ (/\ line'.ast.t = "List" /\ line'.ast.xs # <<>>
            /\ FnFormOk(line'.ast.xs[1])
            /\ AllNumbers(Tail(line'.ast.xs))) =>
             LET params == line'.ast.xs[1].xs[2].xs
                 args == Tail(line'.ast.xs) IN
             IF Len(params) # Len(args)
             THEN ~result'.ok /\ ~IsPanic(result') /\ pc' = "loop" /\ evalEnvs' = envs
             ELSE BoundIn(envs, evalEnvs', params, args)
        /\ (/\ IsForm(line'.ast, "apply") /\ Len(line'.ast.xs) = 3
            /\ EnvGet(envs, 1, "apply") = Ok(new_rust_func("apply", 1))
            /\ EnvGet(envs, 1, "list") = Ok(new_rust_func("list", 1))
            /\ FnFormOk(line'.ast.xs[2])
            /\ IsForm(line'.ast.xs[3], "list")
            /\ AllNumbers(Tail(line'.ast.xs[3].xs))) =>
             LET params == line'.ast.xs[2].xs[2].xs
                 args == Tail(line'.ast.xs[3].xs) IN
             IF Len(params) # Len(args)
             THEN ~result'.ok /\ ~IsPanic(result') /\ pc' = "loop" /\ evalEnvs' = envs
             ELSE BoundIn(envs, evalEnvs', params, args)]_vars

\* apply called a two-parameter closure with one argument: an error came
\* back from core_apply and the loop goes on.
C8_Witness ==
    /\ line.ast = ApplyArity
    /\ ~result.ok
    /\ result.err = "Evaluation"
    /\ pc = "loop"

\* C9: if evaluates its first argument once; when the value is neither Nil
\* nor False (0, "" and () included) it evaluates and returns the second
\* argument, otherwise the third when present and Nil when absent; the branch
\* not selected is never evaluated.
C9_IfTruthiness ==
    [][(IsRep /\ IsForm(line'.ast, "if") /\ Len(line'.ast.xs) \in {3, 4}) =>
        LET args == Tail(line'.ast.xs)
            c == Sub(args[1], envs, <<TopEntry(line'.ast)>>) IN
        IF ~c.r.ok
        THEN result' = c.r /\ evalEnvs' = c.st.envs /\ tr' = c.st.tr
        ELSE IF c.r.val # Nil /\ c.r.val # False
        THEN LET b == Sub(args[2], c.st.envs, c.st.tr) IN
             result' = b.r /\ evalEnvs' = b.st.envs /\ tr' = b.st.tr
        ELSE IF Len(args) = 3
        THEN LET b == Sub(args[3], c.st.envs, c.st.tr) IN
             result' = b.r /\ evalEnvs' = b.st.envs /\ tr' = b.st.tr
        ELSE result' = Ok(Nil) /\ evalEnvs' = c.st.envs /\ tr' = c.st.tr]_vars

\* (if 0 :a :b) returned :a after three eval calls: the form, 0 and :a.
C9_Witness ==
    /\ line.ast = IfZero
    /\ result = Ok(Keyword("a"))
    /\ tr = <<TopEntry(IfZero), TopEntry(Number(0)), TopEntry(Keyword("a"))>>

\* The outcomes of evaluating args one after the other in the root
\* environment, each in the store the previous one left, up to and including
\* the first that fails.
RECURSIVE DoOutcomes(_, _, _)
DoOutcomes(args, es, t) ==
    IF args = <<>> THEN <<>>
    ELSE LET o == Sub(Head(args), es, t) IN
         IF ~o.r.ok THEN <<o>> ELSE <<o>> \o DoOutcomes(Tail(args), o.st.envs, o.st.tr)

\* C10: do evaluates its arguments in the current environment strictly left
\* to right and returns the value of the last; with no argument it returns
\* Nil; when an argument fails, that error is the result and no later
\* argument is evaluated.
C10_DoSequence ==
    [][(IsRep /\ IsForm(line'.ast, "do")) =>
        LET args == Tail(line'.ast.xs)
            outs == DoOutcomes(args, envs, <<TopEntry(line'.ast)>>) IN
        IF args = <<>>
        THEN result' = Ok(Nil) /\ evalEnvs' = envs /\ tr' = <<TopEntry(line'.ast)>>
        ELSE LET last == outs[Len(outs)] IN
             /\ result' = last.r
             /\ evalEnvs' = last.st.envs
             /\ tr' = last.st.tr
             /\ last.r.ok => Len(outs) = Len(args)
             /\ \A i \in 1..(Len(outs) - 1) : outs[i].r.ok]_vars

\* (do (def! p 2) u (def! q 2)) failed on u: p is bound, q is not.
C10_Witness ==
    /\ line.ast = DoFail
    /\ result = Err("UndefinedSymbol", "u", Nil)
    /\ EnvGet(envs, 1, "p") = Ok(Number(2))
    /\ ~EnvGet(envs, 1, "q").ok

\* ------------------------------------------------ claims on application
\* The evaluation of a sub-form of the line in the root environment, in the
\* store st.
SubIn(ast, st) == Eval(ast, 1, st, MaxDepth - 1)

\* The outcomes of evaluating the forms of seq one after the other in the
\* root environment, each in the store the previous one left, up to and
\* including the first that fails.
RECURSIVE Outcomes(_, _)
Outcomes(seq, st) ==
    IF seq = <<>> THEN <<>>
    ELSE LET o == SubIn(Head(seq), st) IN
         IF ~o.r.ok THEN <<o>> ELSE <<o>> \o Outcomes(Tail(seq), o.st)

\* The store in which the sub-forms of the line read by this step are
\* evaluated first.
LineStore == Heap(envs, atoms, hashOrd', <<TopEntry(line'.ast)>>)

\* A non-empty list whose head is not a special-form symbol.
IsApplication(ast) ==
    /\ ast.t = "List" /\ ast.xs # <<>>
    /\ ~(ast.xs[1].t = "Symbol" /\ ast.xs[1].s \in SpecialForms)

IsPrefix(s, t) == Len(s) <= Len(t) /\ SubSeq(t, 1, Len(s)) = s

\* C11: the application of a non-empty list whose head is not a special-form
\* symbol evaluates every element left to right, the operator included,
\* before anything else; when all evaluated and the first evaluated element
\* is neither a native function nor a closure the result is an Evaluation
\* error, and the bindings and atom writes made by the elements remain.
C11_ApplyEvaluatesAllFirst ==
    [][(IsRep /\ IsApplication(line'.ast)) =>
        LET outs == Outcomes(line'.ast.xs, LineStore)
            last == outs[Len(outs)] IN
        /\ IsPrefix(last.st.tr, tr')
        /\ last.r.ok =>
            /\ Len(outs) = Len(line'.ast.xs)
            /\ outs[1].r.val.t \notin {"RustFunc", "MalFunc"} =>
                /\ result' = Err("Evaluation",
                                 "First element of a list must evaluate to a function.", Nil)
                /\ evalEnvs' = last.st.envs
                /\ evalAtoms' = last.st.atoms
                /\ tr' = last.st.tr]_vars

\* (1 (reset! a 7)) failed for its head, and the atom bound to a holds 7.
C11_Witness ==
    /\ line.ast = AppNumReset
    /\ result = Err("Evaluation", "First element of a list must evaluate to a function.", Nil)
    /\ EnvGet(envs, 1, "a").ok
    /\ atoms[envs[1].data["a"].n] = Number(7)

\* The environments es with the bindings that the root of before had for the
\* special-form names and that es lacks.
WithSpecialBindings(es, before) ==
    [es EXCEPT ![1].data =
        [k \in (DOMAIN @) \cup ((DOMAIN before[1].data) \cap SpecialForms) |->
            IF k \in DOMAIN @ THEN @[k] ELSE before[1].data[k]]]

\* The environments es without the root bindings of the special-form names.
WithoutSpecialBindings(es) ==
    [es EXCEPT ![1].data = [k \in (DOMAIN @) \ SpecialForms |-> @[k]]]

\* C12: a special form is selected by the text of the symbol in head position
\* alone: a list headed by def!, let*, fn*, do or if is evaluated as it would
\* be were these names unbound, whatever the environment binds them to (as
\* long as that evaluation does not look one of the names up as a value).
C12_SpecialFormByText ==
    [][(IsRep /\ \E h \in SpecialForms : IsForm(line'.ast, h)) =>
        LET o == Eval(line'.ast, 1,
                      Heap(WithoutSpecialBindings(envs), atoms, hashOrd', <<>>), MaxDepth) IN
        (\A i \in 1..Len(o.st.tr) :
            ~(o.st.tr[i].ast.t = "Symbol" /\ o.st.tr[i].ast.s \in SpecialForms)) =>
            /\ result' = o.r
            /\ tr' = o.st.tr
            /\ evalAtoms' = o.st.atoms
            /\ evalEnvs' = WithSpecialBindings(o.st.envs, envs)]_vars

\* With if bound to 5 in the root, (if nil :a :b) evaluated to :b.
C12_Witness ==
    /\ pc = "loop"
    /\ line.ast = IfNil
    /\ EnvGet(envs, 1, "if") = Ok(Number(5))
    /\ result = Ok(Keyword("b"))

\* C13: the evaluator slot is set by the entry point before any evaluation
\* begins: no evaluation step (the eval builtin, or apply, map or swap!
\* applying a closure) reads the slot while it holds its initial placeholder,
\* whose call ends the process.
C13_EvalFuncSetBeforeUse ==
    ~(IsPanic(result) /\ result.msg = "core EVAL_FUNC was not set")

\* ------------------------------------------------------- claims on atoms
\* x is a symbol that the root environment binds to an atom.
IsAtomName(es, x) ==
    x.t = "Symbol" /\ x.s \in DOMAIN es[1].data /\ es[1].data[x.s].t = "Atom"

IsLiteral(x) == x.t \in {"Nil", "True", "False", "Number", "Str", "Keyword"}

\* What the function written as f returns for args: + on two numbers, and the
\* closure (fn* (v) v) on one argument; a failure otherwise.
Applied(f, args) ==
    CASE f = Symbol("+") /\ Len(args) = 2 /\ args[1].t = "Number" /\ args[2].t = "Number" ->
           Ok(Number(args[1].n + args[2].n))
      [] f = FnId /\ Len(args) = 1 -> Ok(args[1])
      [] OTHER -> Err("RustFunction", "", Nil)

\* ast contains, at any depth, a call of swap! or reset!.
RECURSIVE MentionsWrite(_)
MentionsWrite(ast) ==
    \/ IsForm(ast, "swap!") \/ IsForm(ast, "reset!")
    \/ \E i \in 1..Len(ast.xs) : MentionsWrite(ast.xs[i])
    \/ \E k \in DOMAIN ast.m : MentionsWrite(ast.m[k])

\* The atom steps of the loop, for the functions whose written form is in fs.
AtomSteps(fs) ==
    IsRep =>
      LET xs == line'.ast.xs
          h == envs[1].data[xs[2].s].n IN
      /\ (IsForm(line'.ast, "deref") /\ Len(xs) = 2 /\ IsAtomName(envs, xs[2])) =>
            result' = Ok(atoms[h]) /\ evalAtoms' = atoms
      /\ (IsForm(line'.ast, "reset!") /\ Len(xs) = 3 /\ IsAtomName(envs, xs[2])
                                      /\ IsLiteral(xs[3])) =>
            result' = Ok(xs[3]) /\ evalAtoms' = [atoms EXCEPT ![h] = xs[3]]
      /\ (IsForm(line'.ast, "swap!") /\ Len(xs) >= 3 /\ IsAtomName(envs, xs[2])
                                     /\ xs[3] \in fs
                                     /\ \A i \in 4..Len(xs) : IsLiteral(xs[i])) =>
            LET expected == Applied(xs[3], <<atoms[h]>> \o SubSeq(xs, 4, Len(xs))) IN
            IF expected.ok
            THEN result' = expected /\ evalAtoms' = [atoms EXCEPT ![h] = expected.val]
            ELSE ~result'.ok /\ evalAtoms' = atoms
      /\ ~MentionsWrite(line'.ast) => IsPrefix(atoms, evalAtoms')

\* C14: an atom holds the last value written to it.  deref returns the
\* contents, through whichever binding the atom is reached; reset! stores and
\* returns its second argument; swap! stores and returns f(contents, extra
\* arguments...), for f native or a closure; a failed swap! leaves the
\* contents as they were; a line without swap! or reset! changes no atom, and
\* no operation on one atom changes another.
C14_AtomLastWrite ==
    [][AtomSteps({Symbol("+"), FnId})]_vars

\* ---------------------------------------------------- claims on values
IsSeq(v) == v.t \in {"List", "Vector"}

\* C15: = gives the same answer for (a, b) and (b, a); a List and a Vector,
\* in any combination, are equal exactly when they have the same length and
\* their elements are pairwise equal.
C15_EqualsSymmetric ==
    op.name = "=" =>
        LET a == op.val.xs[1]
            b == op.val.xs[2] IN
        /\ result.ok /\ result.val \in {True, False}
        /\ result = equals(<<b, a>>)
        /\ (IsSeq(a) /\ IsSeq(b)) =>
              (result = Ok(True) <=>
                  /\ Len(a.xs) = Len(b.xs)
                  /\ \A i \in 1..Len(a.xs) : equals(<<a.xs[i], b.xs[i]>>) = Ok(True))

\* (= (list 1 2) [1 2]) is true.
C15_Witness ==
    /\ op = CoreOp("=", <<List(<<Number(1), Number(2)>>), Vector(<<Number(1), Number(2)>>)>>)
    /\ result = Ok(True)

\* C16: an Atom is never equal to any value: = is false when either
\* argument is an Atom, the same atom and an atom with the same contents
\* included.
C16_AtomNeverEqual ==
    (op.name = "=" /\ (op.val.xs[1].t = "Atom" \/ op.val.xs[2].t = "Atom")) =>
        result = Ok(False)

\* (= a a) for one atom a is false.
C16_Witness ==
    /\ op = CoreOp("=", <<Atom(1), Atom(1)>>)
    /\ result = Ok(False)

\* The positions of the keys in the arguments of a map construction.
KeyPositions(args) == {i \in 1..Len(args) : i % 2 = 1}

\* C17: map construction fails with a Parser error when the argument count
\* is odd or a key is neither a String nor a Keyword; otherwise the map has
\* one entry for each distinct (kind, text) of key, a String key and a
\* Keyword key with the same text being distinct, and each key has the
\* value of its last occurrence.
C17_MapConstruction ==
    op.name = "hash-map" =>
        LET args == op.val.xs
            keys == KeyPositions(args) IN
        IF Len(args) % 2 = 1 \/ \E i \in keys : args[i].t \notin {"Str", "Keyword"}
        THEN ~result.ok /\ result.err = "Parser"
        ELSE /\ result.ok /\ result.val.t = "Map"
             /\ Cardinality(DOMAIN result.val.m)
                  = Cardinality({<<args[i].t, args[i].s>> : i \in keys})
             /\ \A i \in keys :
                  (\A j \in keys : j > i => args[j] # args[i]) =>
                      \E k \in DOMAIN result.val.m :
                          MapKeyValue(k) = args[i] /\ result.val.m[k] = args[i + 1]

\* (hash-map :a 1 "a" 2) has two entries.
C17_Witness ==
    /\ op = CoreOp("hash-map", <<Keyword("a"), Number(1), Str("a"), Number(2)>>)
    /\ result.ok
    /\ Cardinality(DOMAIN result.val.m) = 2

\* The canonical keys of map m whose typed key is not k.
KeysBut(m, k) == {key \in DOMAIN m.m : MapKeyValue(key) # k}

\* A dissoc call given the result of (assoc m k v) and the same k.
IsRoundTrip ==
    op.name = "dissoc" /\ line.kind = "assoc" /\ op.val.xs[2] = line.ast.xs[2] /\ result.ok

\* A get call on nil, or on a map that has no entry for the key.
IsMissingGet ==
    /\ op.name = "get"
    /\ op.val.xs[2].t \in {"Str", "Keyword"}
    /\ \/ op.val.xs[1] = Nil
       \/ op.val.xs[1].t = "Map" /\ KeysBut(op.val.xs[1], op.val.xs[2]) = DOMAIN op.val.xs[1].m

C20_SelfEvaluating ==
    op.name = "eval" =>
        /\ result.ok
        /\ eq(result.val, op.val)
        /\ evalEnvs = envs

\* eval returns the value it was given (for an atom, the same cell) and
\* leaves environments and atoms as they were; that value is equal to v
\* unless it is an atom.
SelfEvaluatingSame ==
    op.name = "eval" =>
        /\ result = Ok(op.val)
        /\ evalEnvs = envs /\ evalAtoms = atoms
        /\ op.val.t # "Atom" => eq(result.val, op.val)

\* --------------------------------------------- claims on vectors and maps
\* The values of the outcomes outs.
Values(outs) == [i \in 1..Len(outs) |-> outs[i].r.val]

\* The number of eval calls of the trace t on ast in the root environment.
TimesEvaluated(t, ast) == Cardinality({j \in 1..Len(t) : t[j] = TopEntry(ast)})

\* C19 as stated: a Vector line has every element evaluated and yields a
\* Vector of the same length; a Map line yields a Map with the same keys and
\* has each value evaluated exactly once.
C19_EvaluatesEveryElement ==
    [][IsRep =>
        /\ line'.ast.t = "Vector" =>
            /\ \A i \in 1..Len(line'.ast.xs) : TimesEvaluated(tr', line'.ast.xs[i]) >= 1
            /\ result'.ok /\ result'.val.t = "Vector"
            /\ Len(result'.val.xs) = Len(line'.ast.xs)
        /\ line'.ast.t = "Map" =>
            /\ \A k \in DOMAIN line'.ast.m : TimesEvaluated(tr', line'.ast.m[k]) = 1
            /\ result'.ok /\ result'.val.t = "Map"
            /\ DOMAIN result'.val.m = DOMAIN line'.ast.m]_vars

\* C19: a Vector line evaluates its elements in order up to the first that
\* fails and no further; when none fails it yields a Vector of their values,
\* otherwise that failure.  A Map line evaluates its values once each, in
\* some order of its keys, up to the first that fails; when none fails it
\* yields a Map with the same keys, each with the value of its expression,
\* otherwise that failure.
C19_EvaluatesInOrder ==
    [][IsRep =>
        /\ (line'.ast.t = "Vector" /\ line'.ast.xs # <<>>) =>
            LET outs == Outcomes(line'.ast.xs, LineStore)
                last == outs[Len(outs)] IN
            /\ result' = IF last.r.ok THEN Ok(Vector(Values(outs))) ELSE last.r
            /\ last.r.ok => Len(outs) = Len(line'.ast.xs)
            /\ tr' = last.st.tr
            /\ evalEnvs' = last.st.envs /\ evalAtoms' = last.st.atoms
        /\ (line'.ast.t = "Map" /\ DOMAIN line'.ast.m # {}) =>
            \E ord \in Orders(DOMAIN line'.ast.m) :
                LET outs == Outcomes([i \in 1..Len(ord) |-> line'.ast.m[ord[i]]], LineStore)
                    last == outs[Len(outs)] IN
                /\ tr' = last.st.tr
                /\ evalEnvs' = last.st.envs /\ evalAtoms' = last.st.atoms
                /\ IF last.r.ok
                   THEN /\ Len(outs) = Len(ord)
                        /\ result'.ok /\ result'.val.t = "Map"
                        /\ DOMAIN result'.val.m = DOMAIN line'.ast.m
                        /\ \A i \in 1..Len(ord) : result'.val.m[ord[i]] = outs[i].r.val
                   ELSE result' = last.r]_vars

\* [(def! p 2) u (def! q 2)] failed on u: p is bound, q is not.
C19_Witness ==
    /\ line.ast = VecFail
    /\ result = Err("UndefinedSymbol", "u", Nil)
    /\ EnvGet(envs, 1, "p") = Ok(Number(2))
    /\ ~EnvGet(envs, 1, "q").ok

\* ------------------------------------------------------------------ C21
\* A turn of the loop of main on a non-empty line.
IsTurn == pc = "loop" /\ nlines' = nlines + 1 /\ line'.kind # "empty"

\* What main is to print for the outcome r of rep.
Shown(r) ==
    IF r.ok THEN <<[prefix |-> "", r |-> r]>>
    ELSE IF r.err = "EmptyProgram" THEN <<>>
    ELSE <<[prefix |-> "Error! ", r |-> r]>>

\* C21: the loop of main never aborts on what the evaluation of a line comes
\* to and discards only EmptyProgram: for every non-empty line it prints the
\* result on success, nothing on EmptyProgram and the error otherwise, and in
\* all three cases it goes on reading with the same root environment; it
\* stops only at end of input, after which the history is saved once.
C21_LoopNeverAborts ==
    [][/\ IsTurn =>
            /\ printed' = Shown(result')
            /\ pc' = "loop"
            /\ envs'[1] = evalEnvs'[1]
       /\ pc' # pc =>
            \/ pc = "start" /\ pc' = "loop"
            \/ pc = "loop" /\ pc' = "done" /\ history = 0 /\ history' = 1
       /\ history' # history => pc = "loop" /\ pc' = "done"]_vars

\* The same with the turns that end in a panic left out: what holds of the
\* loop for the outcomes rep returns.
LoopOnReturnedOutcomes ==
    [][/\ (IsTurn /\ ~IsPanic(result')) =>
            /\ printed' = Shown(result')
            /\ pc' = "loop"
            /\ envs'[1] = evalEnvs'[1]
       /\ pc' # pc =>
            \/ pc = "start" /\ pc' = "loop"
            \/ pc = "loop" /\ pc' = "done" /\ history = 0 /\ history' = 1
            \/ pc = "loop" /\ pc' = "aborted" /\ IsTurn /\ IsPanic(result')
       /\ history' # history => pc = "loop" /\ pc' = "done"]_vars

\* ------------------------------------------------------------------ C22
\* f applied to args: the native function called on them, the body of the
\* closure evaluated with its parameters bound to them.
Application(f, args, st) ==
    IF f.t = "MalFunc"
    THEN LET b == EnvWithBinds(st.envs, MalFuncOuterEnv(f), MalFuncParameters(f), args) IN
         IF ~b.r.ok THEN Out(b.r, st)
         ELSE Eval(MalFuncBody(f), Len(b.es), [st EXCEPT !.envs = b.es], MaxDepth)
    ELSE core_apply(f, args, st, MaxDepth)

\* f applied to each of xs from the i-th on, in order, up to the first failure.
RECURSIVE EachApplied(_, _, _, _)
EachApplied(f, xs, i, st) ==
    IF i > Len(xs) THEN [r |-> Ok(Nil), vals |-> <<>>, st |-> st]
    ELSE LET h == Application(f, <<xs[i]>>, st) IN
         IF ~h.r.ok THEN [r |-> h.r, vals |-> <<>>, st |-> h.st]
         ELSE LET t == EachApplied(f, xs, i + 1, h.st) IN
              [r |-> t.r, vals |-> <<h.r.val>> \o t.vals, st |-> t.st]

\* map and apply for the functions in fs.
MapApply(fs) ==
    LET args == op.val.xs
        st == Heap(envs, atoms, <<>>, <<>>) IN
    /\ (op.name = "map" /\ args[1] \in fs /\ IsSeq(args[2])) =>
          LET each == EachApplied(args[1], args[2].xs, 1, st) IN
          IF each.r.ok
          THEN /\ result = Ok(List(each.vals))
               /\ Len(result.val.xs) = Len(args[2].xs)
               /\ evalAtoms = each.st.atoms
          ELSE result = each.r
    /\ (op.name = "apply" /\ args[1] \in fs) =>
          LET last == args[Len(args)] IN
          IF IsSeq(last)
          THEN LET a == Application(args[1], SubSeq(args, 2, Len(args) - 1) \o last.xs, st) IN
               result = a.r /\ evalAtoms = a.st.atoms
          ELSE ~result.ok /\ result.err = "RustFunction"

\* C22: map on a function f and a List or Vector of n elements returns a
\* List, never a Vector, of n elements whose i-th element is f applied to the
\* i-th input element, the applications made in input order and stopping with
\* the error of the first that fails; apply calls f with its middle arguments
\* followed by the elements of its last argument, which must be a List or a
\* Vector.
C22_MapApply == MapApply(MapFns)

\* The same for the functions that are no closures.
MapApplyNative == MapApply({f \in MapFns : f.t # "MalFunc"})

\* ------------------------------------------------------------------ C23
\* C23: evaluation never panics on a value the reader can produce: every
\* failure is an error value returned to main, which therefore never leaves
\* its loop by a panic, and the two panic sites of apply_ast are never reached.
C23_NeverPanics == pc # "aborted" /\ ~IsPanic(result)

\* The part on apply_ast alone: its two panics are never the outcome of a line.
ApplyAstPanicsUnreachable ==
    ~(IsPanic(result) /\ result.msg \in {"Evaluation of list resulted in non-list",
                                         "Evaluation of non-empty list resulted in empty list."})

\* ------------------------------------------------------------------ C24
\* ast is a special form of the wrong shape: def!, let* or fn* with other
\* than 2 arguments, if with fewer than 2 or more than 3, def! whose first
\* argument is no Symbol, let* or fn* whose first argument is neither a List
\* nor a Vector, let* with an odd number of elements in its bindings.
ShapeViolation(ast) ==
    LET args == Tail(ast.xs) IN
    \/ /\ IsForm(ast, "def!")
       /\ (Len(args) # 2 \/ args[1].t # "Symbol")
    \/ /\ IsForm(ast, "let*")
       /\ (Len(args) # 2 \/ ~IsSeq(args[1]) \/ Len(args[1].xs) % 2 = 1)
    \/ /\ IsForm(ast, "fn*")
       /\ (Len(args) # 2 \/ ~IsSeq(args[1]))
    \/ /\ IsForm(ast, "if")
       /\ (Len(args) < 2 \/ Len(args) > 3)

\* C24: a special form of the wrong shape fails with a SpecialForm error
\* before any of its sub-expressions is evaluated: its eval call is the last
\* one of the line, the error is the outcome of the line, and when the form is
\* the line itself no environment and no atom has changed or been created.
C24_ShapeCheckedFirst ==
    [][IsRep =>
         /\ \A i \in 1..Len(tr') :
               ShapeViolation(tr'[i].ast) =>
                   /\ i = Len(tr')
                   /\ ~result'.ok /\ result'.err = "SpecialForm"
         /\ ShapeViolation(line'.ast) =>
               /\ tr' = <<TopEntry(line'.ast)>>
               /\ evalEnvs' = envs
               /\ evalAtoms' = atoms]_vars

\* After x was defined, a let* whose bindings vector has three elements, the
\* second of them a def! of p, has failed with a SpecialForm error and p is
\* not bound.
C24_Witness ==
    /\ pc = "loop"
    /\ line.kind = "form"
    /\ line.ast = LetOddVector
    /\ ShapeViolation(line.ast)
    /\ ~result.ok /\ result.err = "SpecialForm"
    /\ "x" \in DOMAIN envs[1].data
    /\ "p" \notin DOMAIN envs[1].data

\* ------------------------------------------------------------------ C25
\* ast is a call of throw on literal arguments, at least one.
ThrowForm(ast) ==
    /\ IsForm(ast, "throw")
    /\ Len(ast.xs) >= 2
    /\ \A i \in 2..Len(ast.xs) : IsLiteral(ast.xs[i])

\* f is ast or one of its sub-forms.
RECURSIVE HasSubForm(_, _)
HasSubForm(ast, f) ==
    \/ ast = f
    \/ \E i \in 1..Len(ast.xs) : HasSubForm(ast.xs[i], f)
    \/ \E k \in DOMAIN ast.m : HasSubForm(ast.m[k], f)

\* The form (list x...) of literals, and its elements.
IsListOfLiterals(ast) ==
    IsForm(ast, "list") /\ \A i \in 2..Len(ast.xs) : IsLiteral(ast.xs[i])

\* The arguments throw is called with when ast is swap!, apply or map given a
\* function in fs, in the environments es and atoms as; <<>> when ast is no
\* such call.
NativeThrowArgs(ast, fs, es, as) ==
    LET xs == ast.xs IN
    CASE IsForm(ast, "swap!") /\ Len(xs) = 3 /\ IsAtomName(es, xs[2]) /\ xs[3] \in fs ->
           <<as[es[1].data[xs[2].s].n]>>
      [] IsForm(ast, "apply") /\ Len(xs) >= 3 /\ xs[2] \in fs
            /\ (\A i \in 3..(Len(xs) - 1) : IsLiteral(xs[i]))
            /\ IsListOfLiterals(xs[Len(xs)]) ->
           SubSeq(xs, 3, Len(xs) - 1) \o Tail(xs[Len(xs)].xs)
      [] IsForm(ast, "map") /\ Len(xs) = 3 /\ xs[2] \in fs /\ IsListOfLiterals(xs[3]) ->
           SubSeq(xs[3].xs, 2, 2)
      [] OTHER -> <<>>

\* The propagation of what throw raises, for throw called in one of the
\* environments in E and given to swap!, apply and map as one of fs.
ThrowPropagates(E, fs) ==
    IsRep =>
      /\ \A i \in 1..Len(tr') :
            (ThrowForm(tr'[i].ast) /\ tr'[i].env \in E) =>
               /\ result' = Err("Exception", "", tr'[i].ast.xs[2])
               /\ Len(tr') = i + Len(tr'[i].ast.xs)
               /\ \A j \in 1..i :
                     (IsForm(tr'[j].ast, "def!") /\ tr'[j].env = 1
                         /\ HasSubForm(tr'[j].ast, tr'[i].ast)) =>
                        EnvGet(evalEnvs', 1, tr'[j].ast.xs[2].s)
                            = EnvGet(envs, 1, tr'[j].ast.xs[2].s)
      /\ LET isDef == IsForm(line'.ast, "def!") /\ Len(line'.ast.xs) = 3
             call == IF isDef THEN line'.ast.xs[3] ELSE line'.ast
             args == NativeThrowArgs(call, fs, envs, atoms) IN
         args # <<>> =>
            /\ result' = Err("Exception", "", args[1])
            /\ evalAtoms' = atoms
            /\ evalEnvs'[1] = envs[1]

\* C25: throw with at least one argument fails with an Exception whose
\* payload is its first argument, and that error is the outcome of every
\* evaluation that encloses the call (an application, do, if, let*, def!, a
\* vector or hash map, the builtins map, apply and swap! given throw or a
\* closure that throws), up to the loop of main: nothing is evaluated after
\* it, no enclosing def! binds its name and no enclosing swap! stores.
C25_ThrowPropagates ==
    [][ThrowPropagates(1..(MaxEnvs + 2), {Symbol("throw"), FnThrow})]_vars

\* The same for throw called in the root environment and given to the
\* builtins by its name.
ThrowPropagatesFromRoot ==
    [][ThrowPropagates({1}, {Symbol("throw")})]_vars

\* ------------------------------------------------------------------ C26
\* The steps of swap! whose function reaches the atom it was called on, for
\* the lines in L.
NestedSwapSteps(L) ==
    (IsRep /\ line'.ast \in L /\ IsAtomName(envs, Symbol("a"))) =>
      LET h == envs[1].data["a"].n IN
      \* the closure resets a to 1 and returns 2: 2 is stored and returned
      /\ line'.ast = SwapNested =>
            result' = Ok(Number(2)) /\ evalAtoms'[h] = Number(2)
      \* a holds itself: reset! is applied to a and 7, and 7 is stored twice
      /\ (line'.ast = SwapReset /\ atoms[h] = Atom(h)) =>
            result' = Ok(Number(7)) /\ evalAtoms'[h] = Number(7)
      \* a holds itself: the inner swap! stores (list a 1), and so does the outer
      /\ (line'.ast = SwapSwapList /\ atoms[h] = Atom(h)) =>
            result' = Ok(Number(1)) /\ evalAtoms'[h] = List(<<Atom(h), Number(1)>>)
      \* no nested access: the contents read before the call, plus 3
      /\ (line'.ast = SwapPlus /\ atoms[h].t = "Number") =>
            result' = Ok(Number(atoms[h].n + 3)) /\ evalAtoms'[h] = Number(atoms[h].n + 3)

\* C26: swap! reads the contents of the atom once, before it applies the
\* function, and writes once, after the application returned: what a nested
\* reset! or swap! stored into the same atom meanwhile is overwritten by the
\* result of the outer function, and the nested access never fails because
\* the atom is in use.
C26_SwapReadsThenWrites ==
    [][NestedSwapSteps({SwapNested, SwapReset, SwapSwapList, SwapPlus})]_vars

\* The same for the lines whose function is native.
NativeNestedSwap ==
    [][NestedSwapSteps({SwapReset, SwapSwapList, SwapPlus})]_vars

\* A native swap! has written into the atom it was called on while it holds
\* itself.
NativeNestedSwapReached ==
    /\ line.kind = "form" /\ line.ast = SwapReset
    /\ result = Ok(Number(7))
    /\ IsAtomName(envs, Symbol("a"))
    /\ atoms[envs[1].data["a"].n] = Number(7)

\* ------------------------------------------------------------------ C27
\* The same value: a native function of step3 carries no environment, so two
\* functions are the same when they are the same operation.
SameValue(a, b) ==
    IF a.t = "RustFunc" /\ b.t = "RustFunc" THEN a.s = b.s ELSE a = b

\* The same outcome: the same value, or an error of the same kind, and no
\* panic.
SameOutcome(r3, r4) ==
    /\ ~IsPanic(r3) /\ ~IsPanic(r4)
    /\ r3.ok = r4.ok
    /\ r3.ok => SameValue(r3.val, r4.val)
    /\ ~r3.ok => r3.err = r4.err

\* ast contains, at any depth, a let* with an empty list of bindings.
RECURSIVE HasEmptyLet(_)
HasEmptyLet(ast) ==
    \/ IsForm(ast, "let*") /\ Len(ast.xs) = 3 /\ ast.xs[2] = List(<<>>)
    \/ \E i \in 1..Len(ast.xs) : HasEmptyLet(ast.xs[i])

\* A line has been given to both evaluators.
BothRan == nlines > 0 /\ line.kind # "empty"

\* C27: step4 extends step3 conservatively: on every program built from
\* numbers, strings, symbols, def!, let* with a list of bindings, empty or
\* not, and applications of + - * /, started from fresh root environments,
\* the two return the same value or an error of the same kind, and neither
\* panics.
C27_Step4ExtendsStep3 == BothRan => SameOutcome(step3Result, result)

\* The same for the programs without a let* whose list of bindings is empty.
StepsAgreeOnBindings ==
    (BothRan /\ ~HasEmptyLet(line.ast)) => SameOutcome(step3Result, result)

\* ------------------------------------------------------------------ C28
\* The environment reached from e by following outer n times, or up to the
\* one that has no outer.
RECURSIVE Climb(_, _, _)
Climb(es, e, n) ==
    IF n = 0 \/ es[e].outer = 0 THEN e ELSE Climb(es, es[e].outer, n - 1)

\* Every environment of es but the root points to one created before it, and
\* following outer from it ends at the root within as many steps as there are
\* environments.
ChainsEndAtRoot(es) ==
    \A e \in 1..Len(es) :
        /\ es[e].outer < e
        /\ (e = 1) = (es[e].outer = 0)
        /\ Climb(es, e, Len(es)) = 1

\* C28: the outer chain of the environments is acyclic in every state: each
\* environment created by let* or by applying a closure points to an
\* environment that existed before it, outer is never reassigned, and
\* following outer from any environment reaches the root in finitely many
\* steps, so that every lookup along it terminates.
C28_ChainAcyclic ==
    [][/\ ChainsEndAtRoot(evalEnvs')
       /\ ChainsEndAtRoot(envs')
       /\ IsRep =>
            /\ Len(evalEnvs') >= Len(envs)
            /\ \A e \in 1..Len(envs) : evalEnvs'[e].outer = envs[e].outer
            /\ \A e \in 1..Len(envs') : envs'[e].outer = evalEnvs'[e].outer]_vars

\* A line has applied a closure created inside a let*: the environment of the
\* application points to that of the let*, which points to the root, and the
\* line before left the environment of the let* alive.
C28_Witness ==
    /\ pc = "loop"
    /\ Len(envs) >= 2
    /\ \E e \in 1..Len(evalEnvs) :
          /\ e > Len(envs)
          /\ evalEnvs[e].outer > 1
          /\ evalEnvs[evalEnvs[e].outer].outer = 1

====
